---- MODULE Spec2Model ----
(***************************************************************************)
(* SiteFlow dashboard.                                                     *)
(*                                                                         *)
(* The repository holds the web client (React + React Query + a WebSocket  *)
(* client), the backup shell scripts and the project documents.  The       *)
(* server-side orchestration engine (state cache, monitor loop, hub,       *)
(* action engine, provisioner) is described by the specification only and  *)
(* is modelled here from that description.                                 *)
(*                                                                         *)
(* Specifications:                                                         *)
(*   Spec          the WebSocket client, its React provider and the        *)
(*                 dashboard's React Query state                           *)
(*   SpecCache     the state cache with its discovery refreshes            *)
(*   SpecEngine    the action engine with its audit envelope               *)
(*   SpecMonitor   the monitor loop and the subscription hub               *)
(*   SpecProvision the provisioner's create flow with rollback             *)
(*   SpecStatus    the status of a site from its containers                *)
(*   SpecBackup    the backup status rule                                  *)
(*   SpecEmit      emit_result.sh and the ingestion of backup runs         *)
(*   SpecForm      the name field of the provisioning forms                *)
(*   SpecDetect    detectFromFiles                                         *)
(*   SpecRestore   restore.sh                                              *)
(*   SpecMessages  the message path of the WebSocket client                *)
(*   SpecMenu      ContextMenu                                             *)
(*   SpecFilter    filterSites and the counts of SiteFilterBar             *)
(*   SpecSocket    the WebSocket client with connect() called by any user  *)
(*   SpecSubscribe subscribe and unsubscribe through the client            *)
(*   SpecSnapshot  the ['sites'] query written by pushes and by fetches    *)
(*   SpecUploads   backup_uploads.sh                                       *)
(*   SpecWeekly    snapshot_weekly.sh                                      *)
(***************************************************************************)
EXTENDS Integers, Sequences, FiniteSets, TLC

VARIABLES
    \* ---- WebSocketClient (frontend/src/api/websocket.ts)
    ws,                 \* this.ws: 0 = null, else the socket it refers to
    sock,               \* readyState of every WebSocket object created
    reconnectAttempts,  \* this.reconnectAttempts
    timers,             \* delays of the pending setTimeout(connect) calls
    pingInterval,       \* this.pingInterval is non-null
    activePings,        \* number of setInterval ping timers alive
    \* ---- WebSocketProvider (WebSocketContext.tsx, both versions)
    providerKind,       \* "poll" (1 s status interval) or "status" (handler)
    mounted,            \* "no", "yes", "gone"
    handlers,           \* message handler registered
    statusHandlers,     \* status handler registered (status version)
    statusInterval,     \* status interval running (poll version)
    wasConnected,       \* wasConnectedRef / previousConnectionRef
    isConnectedState,   \* React state isConnected
    \* ---- React Query state of the dashboard
    sitesStale,         \* ['sites'] is invalidated and not yet refetched
    graphStale,         \* ['graph'] is invalidated
    sitesFetching,      \* a GET /api/sites/ is in flight
    quiet,              \* whole 60 s periods gone by, socket never open,
                        \* without a fetch of /api/sites/ starting
    \* ---- history of the client
    syncPending,        \* the socket opened and no invalidation followed yet
    schedHist,          \* delays scheduled since the last successful open
    gaveUp,             \* a close was handled without scheduling a reconnect
    \* ---- state cache (specification 4.3) and what it caches
    world,              \* state-changing actions completed on the remote host
    cacheSnap,          \* the memoized snapshot: the world it shows, -1 none
    cacheValid,         \* the snapshot is neither stale nor expired
    running,            \* discovery invocations in flight: [id, obs]
    discoveries,        \* discovery invocations started so far
    callers,            \* the callers of get(): [pc, force, gen, res, minVer, joined]
    \* ---- action engine and audit store (4.7, 4.9)
    queue,              \* per site, the submitted actions not yet started
    executing,          \* per site, the action being executed (0 none)
    nextId,             \* the id the next submission gets
    clock,              \* logical time of the audit timestamps
    audit,              \* the audit entry of every action
    exec,               \* what really ran: [site, kind, started, ended, returned]
    \* ---- monitor loop and subscription hub (4.5, 4.6)
    siteState,          \* the status of every site on the remote host
    metrics,            \* the metrics overlay of the graph
    prevSitesFp,        \* fingerprint of the sites response, prior cycle
    prevGraphFp,        \* fingerprint of the graph response, prior cycle
    conns,              \* the hub's connections: [alive, subscribed, queue]
    cycles,             \* monitor cycles run
    lastCycle,          \* history: what the last cycle saw and did
    histSitesFp,        \* history: sites fingerprint of the last good cycle
    \* ---- provisioner (4.8) and the resources it coordinates
    dirs,               \* site directories on the remote host
    routes,             \* routes in the reverse-proxy configuration
    loaded,             \* routes the reverse proxy has loaded
    dns,                \* records at the DNS provider
    tunnel,             \* hostnames registered on the tunnel
    monitors,           \* monitors at the uptime service
    up,                 \* sites whose services are up
    txn,                \* the create flow: [pc, name, domain, stack, pre, log]
    \* ---- site status (3, invariant i) and the status checklist
    shownSite,          \* the discovered site: [containers, status]
    containerCheck,     \* the checklist's "Container running" item
    \* ---- backup ingest (4.10)
    lastRun,            \* per job type, the site's last run: [status, age]
    overall,            \* overall_status of the site in GET /backups/summary
    \* ---- emit_result.sh and the run rows of the ingester (4.10)
    emit,               \* the script: [pc, i, retryDelay, payload, received, exit]
    runRows,            \* the ingester's run rows, in insertion order
    savedRuns,          \* RUN_IDs of the files saved under RUN_DIR
    runCount,           \* invocations of emit_result.sh so far
    hostTime,           \* the host's clock, in seconds
    \* ---- the provision forms (ProvisionForm, SimpleDashboard)
    formKind,           \* which form is open: "old", "form", "bar" or "none"
    provisionName,      \* the name field, character by character
    provisionError,     \* the form shows a validation error
    provisionRequest,   \* the last POST /api/provision/: [sent, name]
    \* ---- project-type detection from the selected files
    selectedFiles,      \* relative paths of the files selected
    detectedType,       \* what detectFromFiles returned: [form, bar]
    \* ---- restore.sh
    restore,            \* the script: its pc, the parsed options, its exit code
    restoreArgv,        \* the command line: which options it holds
    restoreDone,        \* what this invocation has done to the host so far
    \* ---- the provider's message handler and the React Query data
    queryData,          \* the cached data of ['sites'] and ['graph']
    lastMessage,        \* React state lastMessage
    readyState,         \* readyState of the socket the frames arrive on
    lastFrame,          \* history: event.data of the last message event
    frameTick,          \* history: flips at every message event
    \* ---- ContextMenu
    isOpen,             \* React state isOpen
    disabled,           \* the disabled prop of the current render
    longPressTimer,     \* longPressTimer.current: 0 null, -1 a timer that
                        \* is no longer pending, else a pending timeout
    touchStartPos,      \* touchStartPos.current, <<>> for null
    timeouts,           \* pending timeouts: [id, due, disabled], disabled
                        \* being the prop their openMenu closed over
    touches,            \* the fingers on the container, oldest first
    menuClock,          \* milliseconds since the component mounted
    openedBy,           \* history: what last opened the menu
    \* ---- SiteFilterBar
    filterArgs,         \* the arguments of the last filterSites call
    filterResult,       \* what it returned
    filterCounts,       \* the counts SiteFilterBar shows for the same data
    \* ---- subscriptions made through the client (websocket.ts send)
    link,               \* the client's socket and the topics asked for on it
    \* ---- the ['sites'] query between the WebSocket pushes and its REST fetches
    sitesQuery,         \* the server's snapshot, the cached one, the fetch in flight
    \* ---- backup_uploads.sh
    uploadsRun,         \* one run of the script over the site directories
    \* ---- snapshot_weekly.sh
    weeklyRun           \* one run of the script: its wait loop and its results

clientVars == <<ws, sock, reconnectAttempts, timers, pingInterval, activePings,
                providerKind, mounted, handlers, statusHandlers, statusInterval,
                wasConnected, isConnectedState, sitesStale, graphStale,
                sitesFetching, quiet, syncPending, schedHist, gaveUp>>

cacheVars == <<world, cacheSnap, cacheValid, running, discoveries, callers>>

engineVars == <<queue, executing, nextId, clock, audit, exec>>

monitorVars == <<siteState, metrics, prevSitesFp, prevGraphFp, conns, cycles,
                 lastCycle, histSitesFp>>

provVars == <<dirs, routes, loaded, dns, tunnel, monitors, up, txn>>

statusVars == <<shownSite, containerCheck>>

backupVars == <<lastRun, overall>>

emitVars == <<emit, runRows, savedRuns, runCount, hostTime>>

formVars == <<formKind, provisionName, provisionError, provisionRequest>>

detectVars == <<selectedFiles, detectedType>>

restoreVars == <<restore, restoreArgv, restoreDone>>

messageVars == <<queryData, lastMessage, readyState, lastFrame, frameTick>>

filterVars == <<filterArgs, filterResult, filterCounts>>

menuVars == <<isOpen, disabled, longPressTimer, touchStartPos, timeouts,
              touches, menuClock, openedBy>>

subscriptionVars == <<link>>

snapshotVars == <<sitesQuery>>

uploadsVars == <<uploadsRun>>

weeklyVars == <<weeklyRun>>

\* The state of the views and scripts, which the client and the server
\* components above leave alone.
viewVars == <<statusVars, backupVars, emitVars, formVars, detectVars, restoreVars,
              messageVars, menuVars, filterVars,
              subscriptionVars,
              snapshotVars,
              uploadsVars,
              weeklyVars>>

vars == <<clientVars, cacheVars, engineVars, monitorVars, provVars, viewVars>>

(***************************************************************************)
(* Bounds of the model.                                                    *)
(***************************************************************************)
MaxSockets == 2     \* WebSocket objects alive at the same time
MaxQuiet == 2       \* 60 s periods counted
MaxPings == 2       \* ping intervals running at the same time

(***************************************************************************)
(* Program constants.                                                      *)
(***************************************************************************)
maxReconnectAttempts == 10
reconnectDelay == 1000

Sockets == 1..MaxSockets

RECURSIVE Pow2(_)
Pow2(n) == IF n = 0 THEN 1 ELSE 2 * Pow2(n - 1)

Min(a, b) == IF a < b THEN a ELSE b

RemoveAt(s, i) == [j \in 1..(Len(s) - 1) |-> IF j < i THEN s[j] ELSE s[j + 1]]

(***************************************************************************)
(* WebSocketClient                                                         *)
(***************************************************************************)
ClientOnly == UNCHANGED <<cacheVars, engineVars, monitorVars, provVars, viewVars>>

\* get isConnected(): this.ws?.readyState === WebSocket.OPEN
IsConnected == ws # 0 /\ sock[ws] = "open"

\* The delay scheduleReconnect computes from the attempts made so far.
ScheduleDelay(attempts) == reconnectDelay * Pow2(attempts)

\* The value onopen gives this.reconnectAttempts.
AttemptsKeptOnOpen(attempts) == attempts
AttemptsOnOpen(attempts) == 0

\* Whether scheduleReconnect returns early.
ReconnectExhausted(attempts) == attempts >= maxReconnectAttempts

\* scheduleReconnect() on the reconnect state r = [attempts, timers, hist,
\* gaveUp]: returns early at the limit, else computes the delay, counts the
\* attempt and sets the timeout.
ScheduleReconnect(r) ==
    IF ReconnectExhausted(r.attempts)
    THEN [r EXCEPT !.gaveUp = TRUE]
    ELSE [attempts |-> r.attempts + 1,
          timers   |-> Append(r.timers, ScheduleDelay(r.attempts)),
          hist     |-> Append(r.hist, ScheduleDelay(r.attempts)),
          gaveUp   |-> r.gaveUp]

ReconnectState(tms) ==
    [attempts |-> reconnectAttempts, timers |-> tms, hist |-> schedHist,
     gaveUp |-> gaveUp]

SetReconnectState(r) ==
    /\ reconnectAttempts' = r.attempts
    /\ timers' = r.timers
    /\ schedHist' = r.hist
    /\ gaveUp' = r.gaveUp

\* invalidateQueries(['sites']) and invalidateQueries(['graph']): both are
\* marked stale; ['sites'] has an observer (useSites) and is refetched.
InvalidateBoth ==
    /\ sitesStale' = TRUE
    /\ graphStale' = TRUE
    /\ sitesFetching' = TRUE

\* The status handler of the provider's status version: whether a
\* notifyStatus(connected) invalidates the queries.
StatusInvalidates(connected) ==
    statusHandlers /\ connected /\ ~wasConnected

\* notifyStatus(connected): every registered status handler runs.
NotifyStatus(connected) ==
    IF statusHandlers
    THEN /\ isConnectedState' = connected
         /\ wasConnected' = connected
         /\ IF StatusInvalidates(connected)
            THEN InvalidateBoth
            ELSE UNCHANGED <<sitesStale, graphStale, sitesFetching>>
    ELSE UNCHANGED <<isConnectedState, wasConnected, sitesStale, graphStale,
                     sitesFetching>>

\* connect() called with the pending timeouts tms: returns when the current
\* socket is open; else creates a new WebSocket (s is the object created);
\* when the constructor throws, the catch block schedules a reconnect.
ConnectCall(tms, s, throws) ==
    IF IsConnected
    THEN /\ SetReconnectState(ReconnectState(tms))
         /\ UNCHANGED <<ws, sock>>
    ELSE IF throws
         THEN /\ SetReconnectState(ScheduleReconnect(ReconnectState(tms)))
              /\ UNCHANGED <<ws, sock>>
         ELSE /\ sock[s] = "free"
              /\ \A t \in Sockets : t < s => sock[t] # "free"
              /\ ws' = s
              /\ sock' = [sock EXCEPT ![s] = "connecting"]
              /\ SetReconnectState(ReconnectState(tms))

\* The provider's effect: handlers are registered, the status handler is
\* called at once with isConnected (false), and connect() is called.  The
\* dashboard below it mounts useSites, which fetches.
Mount(kind, s, throws) ==
    /\ mounted = "no"
    /\ ClientOnly
    /\ mounted' = "yes"
    /\ providerKind' = kind
    /\ handlers' = TRUE
    /\ statusHandlers' = (kind = "status")
    /\ statusInterval' = (kind = "poll")
    /\ isConnectedState' = FALSE
    /\ wasConnected' = FALSE
    /\ sitesFetching' = TRUE
    /\ ConnectCall(timers, s, throws)
    /\ UNCHANGED <<pingInterval, activePings, sitesStale, graphStale, quiet,
                   syncPending>>

\* setTimeout(() => this.connect(), delay) fires.
TimerFire(i, s, throws) ==
    /\ i \in 1..Len(timers)
    /\ ClientOnly
    /\ ConnectCall(RemoveAt(timers, i), s, throws)
    /\ UNCHANGED <<pingInterval, activePings, providerKind, mounted, handlers,
                   statusHandlers, statusInterval, wasConnected,
                   isConnectedState, sitesStale, graphStale, sitesFetching,
                   quiet, syncPending>>

\* The socket s opens.  onopen: reconnectAttempts = 0; startPing();
\* notifyStatus(true).  startPing overwrites this.pingInterval.
SocketOpen(s) ==
    /\ sock[s] = "connecting"
    /\ activePings < MaxPings
    /\ ClientOnly
    /\ sock' = [sock EXCEPT ![s] = "open"]
    /\ reconnectAttempts' = AttemptsOnOpen(reconnectAttempts)
    /\ schedHist' = <<>>
    /\ gaveUp' = FALSE
    /\ pingInterval' = TRUE
    /\ activePings' = activePings + 1
    /\ NotifyStatus(TRUE)
    /\ quiet' = IF ws = s THEN 0 ELSE quiet
    /\ syncPending' = IF mounted = "yes" /\ ws = s
                      THEN ~StatusInvalidates(TRUE)
                      ELSE syncPending
    /\ UNCHANGED <<ws, timers, providerKind, mounted, handlers,
                   statusHandlers, statusInterval>>

\* The socket s closes (the connection failed, the server or the network
\* dropped it, or close() completed).  onclose: stopPing();
\* notifyStatus(false); scheduleReconnect().
SocketClose(s) ==
    /\ sock[s] \in {"connecting", "open", "closing"}
    /\ ClientOnly
    /\ sock' = [sock EXCEPT ![s] = "free"]
    /\ pingInterval' = FALSE
    /\ activePings' = IF pingInterval THEN activePings - 1 ELSE activePings
    /\ NotifyStatus(FALSE)
    /\ SetReconnectState(ScheduleReconnect(ReconnectState(timers)))
    /\ UNCHANGED <<ws, providerKind, mounted, handlers, statusHandlers,
                   statusInterval, quiet, syncPending>>

\* The status interval of the provider's poll version fires (every 1000 ms).
StatusPoll ==
    /\ statusInterval
    /\ ClientOnly
    /\ isConnectedState' = IsConnected
    /\ wasConnected' = IsConnected
    /\ IF IsConnected /\ ~wasConnected
       THEN InvalidateBoth /\ quiet' = 0 /\ syncPending' = FALSE
       ELSE UNCHANGED <<sitesStale, graphStale, sitesFetching, quiet,
                        syncPending>>
    /\ UNCHANGED <<ws, sock, reconnectAttempts, timers, pingInterval,
                   activePings, providerKind, mounted, handlers, statusHandlers,
                   statusInterval, schedHist, gaveUp>>

\* The provider's cleanup: removeHandler(); removeStatus() or
\* clearInterval(statusInterval); client.disconnect(), which is stopPing(),
\* this.ws.close(), this.ws = null and notifyStatus(false) to the handlers
\* left (none).
Unmount ==
    /\ mounted = "yes"
    /\ ClientOnly
    /\ mounted' = "gone"
    /\ handlers' = FALSE
    /\ statusHandlers' = FALSE
    /\ statusInterval' = FALSE
    /\ pingInterval' = FALSE
    /\ activePings' = IF pingInterval THEN activePings - 1 ELSE activePings
    /\ sock' = IF ws # 0 /\ sock[ws] \in {"connecting", "open"}
               THEN [sock EXCEPT ![ws] = "closing"]
               ELSE sock
    /\ ws' = 0
    /\ syncPending' = FALSE
    /\ sitesFetching' = FALSE
    /\ UNCHANGED <<reconnectAttempts, timers, providerKind, wasConnected,
                   isConnectedState, sitesStale, graphStale, quiet, schedHist,
                   gaveUp>>

\* The response of GET /api/sites/ arrives.
FetchDone ==
    /\ sitesFetching
    /\ ClientOnly
    /\ sitesFetching' = FALSE
    /\ sitesStale' = FALSE
    /\ UNCHANGED <<ws, sock, reconnectAttempts, timers, pingInterval,
                   activePings, providerKind, mounted, handlers, statusHandlers,
                   statusInterval, wasConnected, isConnectedState, graphStale,
                   quiet, syncPending, schedHist, gaveUp>>

\* useSites / useGraph: refetchInterval: options?.useWebSocket ? false : 60000
\* (0 stands for false).
RefetchInterval(useWebSocket) == IF useWebSocket THEN 0 ELSE 60000

\* The option the dashboards pass: useSites({ useWebSocket: true }).
DashboardUseWebSocket == TRUE

\* 60 s go by on the mounted dashboard.  React Query refetches when the
\* query has a refetch interval; nothing in the interval looks at the
\* connection.
MinutePasses ==
    /\ mounted = "yes"
    /\ ClientOnly
    /\ IF RefetchInterval(DashboardUseWebSocket) # 0
       THEN /\ sitesFetching' = TRUE
            /\ quiet' = 0
       ELSE /\ quiet' = IF IsConnected THEN 0 ELSE Min(quiet + 1, MaxQuiet)
            /\ UNCHANGED sitesFetching
    /\ UNCHANGED <<ws, sock, reconnectAttempts, timers, pingInterval,
                   activePings, providerKind, mounted, handlers, statusHandlers,
                   statusInterval, wasConnected, isConnectedState, sitesStale,
                   graphStale, syncPending, schedHist, gaveUp>>

InitClient ==
    /\ ws = 0
    /\ sock = [s \in Sockets |-> "free"]
    /\ reconnectAttempts = 0
    /\ timers = <<>>
    /\ pingInterval = FALSE
    /\ activePings = 0
    /\ providerKind = "none"
    /\ mounted = "no"
    /\ handlers = FALSE
    /\ statusHandlers = FALSE
    /\ statusInterval = FALSE
    /\ wasConnected = FALSE
    /\ isConnectedState = FALSE
    /\ sitesStale = FALSE
    /\ graphStale = FALSE
    /\ sitesFetching = FALSE
    /\ quiet = 0
    /\ syncPending = FALSE
    /\ schedHist = <<>>
    /\ gaveUp = FALSE

NextClient ==
    \/ \E kind \in {"poll", "status"}, s \in Sockets, throws \in BOOLEAN :
          Mount(kind, s, throws)
    \/ \E i \in 1..Len(timers), s \in Sockets, throws \in BOOLEAN :
          TimerFire(i, s, throws)
    \/ \E s \in Sockets : SocketOpen(s)
    \/ \E s \in Sockets : SocketClose(s)
    \/ StatusPoll
    \/ Unmount
    \/ FetchDone
    \/ MinutePasses

(***************************************************************************)
(* State cache (specification 4.3), the discovery it memoizes, and the     *)
(* action engine's invalidate() after a state-changing action.             *)
(***************************************************************************)
MaxWorld == 1        \* state-changing actions completed
MaxDiscoveries == 2  \* discovery invocations started

\* The callers of get(): the monitor loop, which always forces a refresh,
\* and two requests of GET /sites/ (with or without ?refresh=true).
Callers == {"monitor", "api1", "api2"}

CacheOnly == UNCHANGED <<clientVars, engineVars, monitorVars, provVars, viewVars>>

IdleCaller ==
    [pc |-> "idle", force |-> FALSE, gen |-> 0, res |-> -1, minVer |-> 0,
     joined |-> FALSE]

\* get(): a call that is not forced is answered from a valid snapshot.
ServedFromCache(force) == ~force /\ cacheValid /\ cacheSnap # -1

\* get(): whether a call that needs a refresh waits for the refresh in
\* flight instead of starting one (single-flight).
JoinsOnlyUnforced(force) == running # {} /\ ~force
JoinsInFlight(force) == running # {}

\* get(force_refresh) by caller c.
Get(c, force) ==
    /\ callers[c].pc = "idle"
    /\ c = "monitor" => force
    /\ CacheOnly
    /\ IF ServedFromCache(force)
       THEN /\ callers' = [callers EXCEPT ![c] =
                  [pc |-> "done", force |-> force, gen |-> 0, res |-> cacheSnap,
                   minVer |-> world, joined |-> FALSE]]
            /\ UNCHANGED <<running, discoveries>>
       ELSE IF JoinsInFlight(force)
            THEN /\ \E r \in running :
                      callers' = [callers EXCEPT ![c] =
                          [pc |-> "waiting", force |-> force, gen |-> r.id,
                           res |-> -1, minVer |-> world, joined |-> TRUE]]
                 /\ UNCHANGED <<running, discoveries>>
            ELSE /\ discoveries < MaxDiscoveries
                 /\ discoveries' = discoveries + 1
                 /\ running' = running \cup {[id |-> discoveries + 1, obs |-> -1]}
                 /\ callers' = [callers EXCEPT ![c] =
                       [pc |-> "waiting", force |-> force,
                        gen |-> discoveries + 1, res |-> -1, minVer |-> world,
                        joined |-> FALSE]]
    /\ UNCHANGED <<world, cacheSnap, cacheValid>>

\* The discovery in flight queries the remote host: what it will report is
\* the state of the host at this moment.
DiscoveryObserve(id) ==
    /\ [id |-> id, obs |-> -1] \in running
    /\ CacheOnly
    /\ running' = (running \ {[id |-> id, obs |-> -1]})
                    \cup {[id |-> id, obs |-> world]}
    /\ UNCHANGED <<world, cacheSnap, cacheValid, discoveries, callers>>

\* The refresh completes: the snapshot is memoized and handed to every
\* caller waiting for this refresh.
RefreshDone(id) ==
    /\ \E r \in running :
          /\ r.id = id
          /\ r.obs # -1
          /\ running' = running \ {r}
          /\ cacheSnap' = r.obs
          /\ cacheValid' = TRUE
          /\ callers' = [c \in Callers |->
                IF callers[c].pc = "waiting" /\ callers[c].gen = id
                THEN [callers[c] EXCEPT !.pc = "done", !.res = r.obs]
                ELSE callers[c]]
    /\ CacheOnly
    /\ UNCHANGED <<world, discoveries>>

\* The refresh fails (TransportError): every waiting caller gets the error
\* (-2) and the cache keeps what it had.
RefreshFails(id) ==
    /\ \E r \in running :
          /\ r.id = id
          /\ running' = running \ {r}
          /\ callers' = [c \in Callers |->
                IF callers[c].pc = "waiting" /\ callers[c].gen = id
                THEN [callers[c] EXCEPT !.pc = "done", !.res = -2]
                ELSE callers[c]]
    /\ CacheOnly
    /\ UNCHANGED <<world, cacheSnap, cacheValid, discoveries>>

\* The caller takes its answer.
Return(c) ==
    /\ callers[c].pc = "done"
    /\ CacheOnly
    /\ callers' = [callers EXCEPT ![c] = IdleCaller]
    /\ UNCHANGED <<world, cacheSnap, cacheValid, running, discoveries>>

\* A state-changing action succeeds on the remote host; the action engine
\* calls invalidate(), which marks the cache stale, and returns.
ActionSucceeds ==
    /\ world < MaxWorld
    /\ CacheOnly
    /\ world' = world + 1
    /\ cacheValid' = FALSE
    /\ UNCHANGED <<cacheSnap, running, discoveries, callers>>

\* The TTL of the snapshot runs out.
TtlExpires ==
    /\ cacheValid
    /\ CacheOnly
    /\ cacheValid' = FALSE
    /\ UNCHANGED <<world, cacheSnap, running, discoveries, callers>>

InitCache ==
    /\ world = 0
    /\ cacheSnap = -1
    /\ cacheValid = FALSE
    /\ running = {}
    /\ discoveries = 0
    /\ callers = [c \in Callers |-> IdleCaller]

NextCache ==
    \/ \E c \in Callers, force \in BOOLEAN : Get(c, force)
    \/ \E id \in 1..MaxDiscoveries : DiscoveryObserve(id)
    \/ \E id \in 1..MaxDiscoveries : RefreshDone(id)
    \/ \E id \in 1..MaxDiscoveries : RefreshFails(id)
    \/ \E c \in Callers : Return(c)
    \/ ActionSucceeds
    \/ TtlExpires

(***************************************************************************)
(* Action engine (specification 4.7): site actions, serialized per site by *)
(* a per-target queue, each wrapped in the audit envelope (4.7, 4.9).      *)
(***************************************************************************)
MaxActions == 3      \* site actions submitted

\* The remote executor's pool of sessions (4.1, 5: default 4 sessions).
PoolLimit == 4

SiteIds == {"blog", "shop"}
ActionIds == 1..MaxActions
ActionKinds == {"start", "stop"}
Outcomes == {"success", "error", "timeout", "cancelled"}

EngineOnly == UNCHANGED <<clientVars, cacheVars, monitorVars, provVars, viewVars>>

NoAudit == [status |-> "none", started |-> -1, ended |-> -1]
NoExec ==
    [site |-> "", kind |-> "none", started |-> -1, ended |-> -1,
     returned |-> FALSE]

\* A site action is submitted: it queues behind the actions of its site.
Submit(site, kind) ==
    /\ nextId <= MaxActions
    /\ EngineOnly
    /\ queue' = [queue EXCEPT ![site] = Append(@, nextId)]
    /\ exec' = [exec EXCEPT ![nextId] = [NoExec EXCEPT !.site = site, !.kind = kind]]
    /\ nextId' = nextId + 1
    /\ UNCHANGED <<executing, clock, audit>>

\* Per-site exclusivity: the head of a site's queue starts only when no
\* action of that site is executing.
SiteBusyIgnored(site) == TRUE
SiteFree(site) == executing[site] = 0

SessionsInUse == Cardinality({s \in SiteIds : executing[s] # 0})

\* The audit envelope's first write: the pending entry.  A failed audit
\* write is logged only and leaves no entry.
PendingEntry(ok, now) ==
    IF ok THEN [status |-> "pending", started |-> now, ended |-> -1]
    ELSE NoAudit

\* The head of the site's queue starts: the pending audit entry is written
\* and the compose command is sent.
Begin(site, auditOk) ==
    /\ queue[site] # <<>>
    /\ SiteFree(site)
    /\ SessionsInUse < PoolLimit
    /\ EngineOnly
    /\ LET id == Head(queue[site]) IN
          /\ queue' = [queue EXCEPT ![site] = Tail(@)]
          /\ executing' = [executing EXCEPT ![site] = id]
          /\ audit' = [audit EXCEPT ![id] = PendingEntry(auditOk, clock)]
          /\ exec' = [exec EXCEPT ![id].started = clock]
    /\ clock' = clock + 1
    /\ UNCHANGED nextId

\* The terminal status the envelope gives an outcome.
TerminalStatus(outcome) == IF outcome = "success" THEN "success" ELSE "failure"

\* The audit envelope's second write: update(id, patch) finalizes a pending
\* entry.  A failed audit write is logged only: the action still returns
\* and the entry stays as it was.
Finalize(entry, outcome, ok, now) ==
    IF ok /\ entry.status = "pending"
    THEN [entry EXCEPT !.status = TerminalStatus(outcome), !.ended = now]
    ELSE entry

\* The command of the executing action ends (with success, a command
\* failure, a timeout or a cancellation); the envelope finalizes the entry
\* and the handler returns.
Finish(site, outcome, auditOk) ==
    /\ executing[site] # 0
    /\ EngineOnly
    /\ LET id == executing[site] IN
          /\ audit' = [audit EXCEPT ![id] = Finalize(@, outcome, auditOk, clock)]
          /\ exec' = [exec EXCEPT ![id].ended = clock, ![id].returned = TRUE]
    /\ executing' = [executing EXCEPT ![site] = 0]
    /\ clock' = clock + 1
    /\ UNCHANGED <<queue, nextId>>

InitEngine ==
    /\ queue = [s \in SiteIds |-> <<>>]
    /\ executing = [s \in SiteIds |-> 0]
    /\ nextId = 1
    /\ clock = 0
    /\ audit = [a \in ActionIds |-> NoAudit]
    /\ exec = [a \in ActionIds |-> NoExec]

NextEngine ==
    \/ \E site \in SiteIds, kind \in ActionKinds : Submit(site, kind)
    \/ \E site \in SiteIds, auditOk \in BOOLEAN : Begin(site, auditOk)
    \/ \E site \in SiteIds, outcome \in Outcomes, auditOk \in BOOLEAN :
          Finish(site, outcome, auditOk)

(***************************************************************************)
(* Monitor loop (specification 4.5) and subscription hub (4.6).            *)
(***************************************************************************)
MaxCycles == 4       \* monitor cycles run
QueueCap == 2        \* Q, the capacity of a connection's outbound queue

\* The discovered sites, ordered by name as the discovery pipeline orders them.
SiteOrder == <<"blog", "shop">>
MonitoredSites == {SiteOrder[i] : i \in 1..Len(SiteOrder)}
Statuses == {"running", "stopped"}
ConnIds == {"c1", "c2"}

MonitorOnly == UNCHANGED <<clientVars, cacheVars, engineVars, provVars, viewVars>>

StatusRank(st) == IF st = "running" THEN 1 ELSE 2

\* The sites response in canonical form: the sites ordered by name, each
\* with its status.
CanonicalSites == [i \in 1..Len(SiteOrder) |-> StatusRank(siteState[SiteOrder[i]])]

\* The stable hash of a canonical form.
RECURSIVE HashSeq(_, _)
HashSeq(s, n) == IF n = 0 THEN 7 ELSE 3 * HashSeq(s, n - 1) + s[n]

SitesFingerprint == HashSeq(CanonicalSites, Len(CanonicalSites))

\* The graph response is the projection of the sites with the metrics
\* overlay attached.
GraphFingerprint == 2 * SitesFingerprint + metrics

\* The monitor publishes an envelope when its fingerprint differs from the
\* one of the prior cycle.
PublishAlways(fp, prior) == TRUE
ShouldPublish(fp, prior) == fp # prior

\* The envelopes of a cycle, in the order they are published.
Envelopes(pubSites, pubGraph) ==
    (IF pubSites THEN <<"sites.update">> ELSE <<>>)
        \o (IF pubGraph THEN <<"graph.update">> ELSE <<>>)

\* A connection in state Closed, with what closed it.
ClosedConn(why) ==
    [alive |-> FALSE, subscribed |-> FALSE, queue |-> <<>>, closed |-> why]

\* The hub hands one envelope to one connection: a connection whose queue is
\* full is dropped; the publisher goes on.
DeliverBlocked(c, msg) ==
    IF ~(c.alive /\ c.subscribed) \/ Len(c.queue) >= QueueCap THEN c
    ELSE [c EXCEPT !.queue = Append(@, msg)]
Deliver(c, msg) ==
    IF ~(c.alive /\ c.subscribed) THEN c
    ELSE IF Len(c.queue) >= QueueCap
         THEN ClosedConn("slow-consumer")
         ELSE [c EXCEPT !.queue = Append(@, msg)]

RECURSIVE DeliverAll(_, _)
DeliverAll(c, msgs) ==
    IF msgs = <<>> THEN c ELSE DeliverAll(Deliver(c, Head(msgs)), Tail(msgs))

\* One monitor cycle.  With a transport error the cycle records the failure
\* and publishes nothing; the next cycle compares with the same prior
\* fingerprints.
MonitorCycle(transportError) ==
    /\ cycles < MaxCycles
    /\ MonitorOnly
    /\ cycles' = cycles + 1
    /\ LET pubSites == ~transportError /\ ShouldPublish(SitesFingerprint, prevSitesFp)
           pubGraph == ~transportError /\ ShouldPublish(GraphFingerprint, prevGraphFp)
           msgs == Envelopes(pubSites, pubGraph)
           after == [c \in ConnIds |-> DeliverAll(conns[c], msgs)]
       IN  /\ conns' = after
           /\ prevSitesFp' = IF transportError THEN prevSitesFp ELSE SitesFingerprint
           /\ prevGraphFp' = IF transportError THEN prevGraphFp ELSE GraphFingerprint
           /\ histSitesFp' = IF transportError THEN histSitesFp ELSE SitesFingerprint
           /\ lastCycle' =
                 [ran |-> TRUE, ok |-> ~transportError,
                  fp |-> SitesFingerprint, prior |-> histSitesFp,
                  sent |-> msgs]
    /\ UNCHANGED <<siteState, metrics>>

\* A site's containers change on the remote host.
WorldChange(s, st) ==
    /\ siteState[s] # st
    /\ MonitorOnly
    /\ siteState' = [siteState EXCEPT ![s] = st]
    /\ UNCHANGED <<metrics, prevSitesFp, prevGraphFp, conns, cycles, lastCycle,
                   histSitesFp>>

\* The measured metrics change.
MetricsChange ==
    /\ MonitorOnly
    /\ metrics' = 1 - metrics
    /\ UNCHANGED <<siteState, prevSitesFp, prevGraphFp, conns, cycles,
                   lastCycle, histSitesFp>>

\* A client connects (Connecting -> Open).
ConnOpen(c) ==
    /\ ~conns[c].alive
    /\ MonitorOnly
    /\ conns' = [conns EXCEPT ![c] =
                    [alive |-> TRUE, subscribed |-> FALSE, queue |-> <<>>,
                     closed |-> "no"]]
    /\ UNCHANGED <<siteState, metrics, prevSitesFp, prevGraphFp, cycles,
                   lastCycle, histSitesFp>>

\* subscribe{topic} from the client.
Subscribe(c) ==
    /\ conns[c].alive /\ ~conns[c].subscribed
    /\ MonitorOnly
    /\ conns' = [conns EXCEPT ![c].subscribed = TRUE]
    /\ UNCHANGED <<siteState, metrics, prevSitesFp, prevGraphFp, cycles,
                   lastCycle, histSitesFp>>

\* The connection's writer task sends the head of the outbound queue.
Drain(c) ==
    /\ conns[c].alive /\ conns[c].queue # <<>>
    /\ MonitorOnly
    /\ conns' = [conns EXCEPT ![c].queue = Tail(@)]
    /\ UNCHANGED <<siteState, metrics, prevSitesFp, prevGraphFp, cycles,
                   lastCycle, histSitesFp>>

\* The client disconnects abruptly (-> Closed).
ConnLost(c) ==
    /\ conns[c].alive
    /\ MonitorOnly
    /\ conns' = [conns EXCEPT ![c] = ClosedConn("disconnect")]
    /\ UNCHANGED <<siteState, metrics, prevSitesFp, prevGraphFp, cycles,
                   lastCycle, histSitesFp>>

InitMonitor ==
    /\ siteState = [s \in MonitoredSites |-> "running"]
    /\ metrics = 0
    /\ prevSitesFp = -1
    /\ prevGraphFp = -1
    /\ conns = [c \in ConnIds |-> ClosedConn("never-open")]
    /\ cycles = 0
    /\ lastCycle = [ran |-> FALSE, ok |-> FALSE, fp |-> -1, prior |-> -1,
                    sent |-> <<>>]
    /\ histSitesFp = -1

NextMonitor ==
    \/ \E e \in BOOLEAN : MonitorCycle(e)
    \/ \E s \in MonitoredSites, st \in Statuses : WorldChange(s, st)
    \/ MetricsChange
    \/ \E c \in ConnIds : ConnOpen(c)
    \/ \E c \in ConnIds : Subscribe(c)
    \/ \E c \in ConnIds : Drain(c)
    \/ \E c \in ConnIds : ConnLost(c)

(***************************************************************************)
(* Provisioner (specification 4.8): the create flow, its compensation      *)
(* stack and the rollback.                                                 *)
(***************************************************************************)
SiteNames == {"blog", "shop"}
CustomDomain == "www.example.com"

\* The default domain of a site: ${name}.<base_domain>.
DefaultDomain(name) == IF name = "blog" THEN "blog.example.com" ELSE "shop.example.com"

Domains == {DefaultDomain(n) : n \in SiteNames} \cup {CustomDomain}

\* The steps of the create flow in order; step 5 coordinates three external
\* resources one after the other.
StepOrder ==
    <<"validate", "template", "files", "route", "dns", "tunnel", "monitor",
      "up", "reload">>

\* The number of the create flow's step (1..7) a step of StepOrder is part of.
StepNumber(i) == IF i <= 4 THEN i ELSE IF i <= 7 THEN 5 ELSE i - 2

ProvisionOnly == UNCHANGED <<clientVars, cacheVars, engineVars, monitorVars, viewVars>>

\* Everything the create flow can touch.
World ==
    [dirs |-> dirs, routes |-> routes, loaded |-> loaded, dns |-> dns,
     tunnel |-> tunnel, monitors |-> monitors, up |-> up]

IdleTxn ==
    [pc |-> "idle", step |-> 0, name |-> "", domain |-> "", stack |-> <<>>,
     pre |-> <<>>, recorded |-> <<>>, log |-> <<>>, failedAt |-> 0]

\* POST /provision/ {name, template, domain?}.
ProvisionBegin(name, domain) ==
    /\ txn.pc = "idle"
    /\ ProvisionOnly
    /\ txn' = [IdleTxn EXCEPT !.pc = "running", !.step = 1, !.name = name,
                              !.domain = domain, !.pre = World]
    /\ UNCHANGED <<dirs, routes, loaded, dns, tunnel, monitors, up>>

\* Whether the current step can succeed: an existing site directory and a
\* route already bound are conflicts.
StepPossible ==
    CASE StepOrder[txn.step] = "files" -> txn.name \notin dirs
      [] StepOrder[txn.step] = "route" ->
            ~\E r \in routes : r.domain = txn.domain
      [] OTHER -> TRUE

\* Whether the current step creates something: the steps on external
\* resources are idempotent and find an existing resource as it is.
StepCreates ==
    CASE StepOrder[txn.step] \in {"validate", "template", "reload"} -> FALSE
      [] StepOrder[txn.step] = "dns" -> txn.domain \notin dns
      [] StepOrder[txn.step] = "tunnel" -> txn.domain \notin tunnel
      [] StepOrder[txn.step] = "monitor" -> txn.name \notin monitors
      [] OTHER -> TRUE

\* What a step records on the compensation stack: its undo when it created
\* something, nothing (a no-op) otherwise.
RecordedUnlessTunnel(step, created) ==
    IF created /\ step # "tunnel" THEN <<step>> ELSE <<>>
Recorded(step, created) == IF created THEN <<step>> ELSE <<>>

\* The current step succeeds.
StepOk ==
    /\ txn.pc = "running"
    /\ StepPossible
    /\ ProvisionOnly
    /\ LET s == StepOrder[txn.step] IN
          /\ dirs' = IF s = "files" THEN dirs \cup {txn.name} ELSE dirs
          /\ routes' = IF s = "route"
                       THEN routes \cup {[domain |-> txn.domain, site |-> txn.name]}
                       ELSE routes
          /\ dns' = IF s = "dns" THEN dns \cup {txn.domain} ELSE dns
          /\ tunnel' = IF s = "tunnel" THEN tunnel \cup {txn.domain} ELSE tunnel
          /\ monitors' = IF s = "monitor" THEN monitors \cup {txn.name} ELSE monitors
          /\ up' = IF s = "up" THEN up \cup {txn.name} ELSE up
          /\ loaded' = IF s = "reload" THEN routes ELSE loaded
          /\ txn' = [txn EXCEPT
                        !.stack = Recorded(s, StepCreates) \o @,
                        !.step = @ + 1,
                        !.pc = IF txn.step = Len(StepOrder) THEN "done" ELSE "running"]

\* The current step fails (a conflict, a transport error, a timeout, a
\* command failure): the rollback starts.
StepFails ==
    /\ txn.pc = "running"
    /\ ProvisionOnly
    /\ txn' = [txn EXCEPT !.pc = "rollback", !.failedAt = StepNumber(txn.step),
                          !.recorded = txn.stack]
    /\ UNCHANGED <<dirs, routes, loaded, dns, tunnel, monitors, up>>

\* The rollback runs the compensation on top of the stack.
Compensate ==
    /\ txn.pc = "rollback"
    /\ txn.stack # <<>>
    /\ ProvisionOnly
    /\ LET s == Head(txn.stack) IN
          /\ dirs' = IF s = "files" THEN dirs \ {txn.name} ELSE dirs
          /\ routes' = IF s = "route"
                       THEN routes \ {[domain |-> txn.domain, site |-> txn.name]}
                       ELSE routes
          /\ dns' = IF s = "dns" THEN dns \ {txn.domain} ELSE dns
          /\ tunnel' = IF s = "tunnel" THEN tunnel \ {txn.domain} ELSE tunnel
          /\ monitors' = IF s = "monitor" THEN monitors \ {txn.name} ELSE monitors
          /\ up' = IF s = "up" THEN up \ {txn.name} ELSE up
          /\ txn' = [txn EXCEPT !.stack = Tail(@), !.log = Append(@, s)]
    /\ UNCHANGED loaded

\* The rollback is over: the audit entry becomes failure, with the reason
\* and the compensations performed.
RollbackEnds ==
    /\ txn.pc = "rollback"
    /\ txn.stack = <<>>
    /\ ProvisionOnly
    /\ txn' = [txn EXCEPT !.pc = "failed"]
    /\ UNCHANGED <<dirs, routes, loaded, dns, tunnel, monitors, up>>

\* The response is sent.
ProvisionReturns ==
    /\ txn.pc \in {"done", "failed"}
    /\ ProvisionOnly
    /\ txn' = IdleTxn
    /\ UNCHANGED <<dirs, routes, loaded, dns, tunnel, monitors, up>>

\* DELETE /provision/ {name, remove_volumes, remove_files}: stack stopped,
\* routes removed, monitor unregistered, DNS and tunnel hostname removed,
\* directory deleted; missing resources are not errors.
Deprovision(name) ==
    /\ txn.pc = "idle"
    /\ name \in dirs
    /\ ProvisionOnly
    /\ LET gone == {r.domain : r \in {x \in routes : x.site = name}} IN
          /\ routes' = {r \in routes : r.site # name}
          /\ loaded' = {r \in routes : r.site # name}
          /\ dns' = dns \ gone
          /\ tunnel' = tunnel \ gone
    /\ up' = up \ {name}
    /\ monitors' = monitors \ {name}
    /\ dirs' = dirs \ {name}
    /\ UNCHANGED txn

\* A DNS record is created at the provider by somebody else.
ExternalDnsRecord(d) ==
    /\ txn.pc = "idle"
    /\ d \notin dns
    /\ ProvisionOnly
    /\ dns' = dns \cup {d}
    /\ UNCHANGED <<dirs, routes, loaded, tunnel, monitors, up, txn>>

InitProvision ==
    /\ dirs = {}
    /\ routes = {}
    /\ loaded = {}
    /\ dns = {}
    /\ tunnel = {}
    /\ monitors = {}
    /\ up = {}
    /\ txn = IdleTxn

NextProvision ==
    \/ \E name \in SiteNames, domain \in Domains : ProvisionBegin(name, domain)
    \/ StepOk
    \/ StepFails
    \/ Compensate
    \/ RollbackEnds
    \/ ProvisionReturns
    \/ \E name \in SiteNames : Deprovision(name)
    \/ \E d \in Domains : ExternalDnsRecord(d)


(***************************************************************************)
(* Site status (specification 3, invariant i) and the "Container running"  *)
(* item of the status checklist.                                           *)
(***************************************************************************)
MaxContainers == 3   \* containers of a shownSite

StatusOnly ==
    UNCHANGED <<clientVars, cacheVars, engineVars, monitorVars, provVars,
                backupVars, emitVars, formVars, detectVars, restoreVars,
                messageVars,
                menuVars,
                filterVars,
                subscriptionVars,
                snapshotVars,
                uploadsVars,
                weeklyVars>>

\* Status texts of a container as docker reports them, character by
\* character; a container the API gives no status is [defined |-> FALSE].
UpText == <<"U", "p", " ", "2", " ", "h", "o", "u", "r", "s">>
UnhealthyText == <<"U", "p", " ", "5", "m", " ", "(", "u", "n", "h", ")">>
ExitedText == <<"E", "x", "i", "t", "e", "d", " ", "(", "0", ")">>
CreatedText == <<"C", "r", "e", "a", "t", "e", "d">>

ContainerStatuses ==
    {[defined |-> TRUE, text |-> t] :
        t \in {UpText, UnhealthyText, ExitedText, CreatedText}}
        \cup {[defined |-> FALSE, text |-> <<>>]}

ContainerLists ==
    UNION {[1..n -> ContainerStatuses] : n \in 0..MaxContainers}

\* String.prototype.includes
Includes(s, sub) ==
    \E i \in 1..(Len(s) - Len(sub) + 1) : SubSeq(s, i, i + Len(sub) - 1) = sub

\* c.status?.includes('Up')
IsUp(c) == c.defined /\ Includes(c.text, <<"U", "p">>)

\* shownSite.containers.filter(c => c.status?.includes('Up')).length
RunningCount(cs) == Cardinality({i \in 1..Len(cs) : IsUp(cs[i])})

SiteStatuses == {"running", "stopped", "degraded", "unknown"}

\* The status the discovery pipeline derives from a site's containers.
SiteStatusEmptyLast(cs) ==
    IF RunningCount(cs) = Len(cs) THEN "running"
    ELSE IF RunningCount(cs) = 0 THEN "stopped"
    ELSE IF Len(cs) = 0 THEN "unknown"
    ELSE "degraded"
SiteStatus(cs) ==
    IF Len(cs) = 0 THEN "unknown"
    ELSE IF RunningCount(cs) = Len(cs) THEN "running"
    ELSE IF RunningCount(cs) = 0 THEN "stopped"
    ELSE "degraded"

\* getContainerCheck(shownSite): the status and the detail of the item.
GetContainerCheck(s) ==
    LET runningN == RunningCount(s.containers)
        total == Len(s.containers)
    IN  IF total = 0 THEN [status |-> "error", detail |-> "No containers found"]
        ELSE IF runningN = total THEN [status |-> "ok", detail |-> "running"]
        ELSE IF runningN > 0 THEN [status |-> "warning", detail |-> "some running"]
        ELSE [status |-> "error", detail |-> "All containers stopped"]

\* A discovery reads the containers cs of the site; the dashboard renders
\* the site's checklist.
Discover(cs) ==
    /\ StatusOnly
    /\ shownSite' = [containers |-> cs, status |-> SiteStatus(cs)]
    /\ containerCheck' = GetContainerCheck(shownSite')

InitStatus ==
    /\ shownSite = [containers |-> <<>>, status |-> SiteStatus(<<>>)]
    /\ containerCheck = GetContainerCheck(shownSite)

NextStatus == \E cs \in ContainerLists : Discover(cs)

(***************************************************************************)
(* Backup ingest (specification 4.10): the runs of one site and its        *)
(* overall status in the summary.                                          *)
(***************************************************************************)
BackupOnly ==
    UNCHANGED <<clientVars, cacheVars, engineVars, monitorVars, provVars,
                statusVars, emitVars, formVars, detectVars, restoreVars,
                messageVars,
                menuVars,
                filterVars,
                subscriptionVars,
                snapshotVars,
                uploadsVars,
                weeklyVars>>

\* The job types with a freshness threshold in the configuration.
JobTypes == {"db", "uploads", "verify", "snapshot"}

\* Thresholds in hours (defaults: db 26 h, uploads 30 h, verify 7 d,
\* snapshot 8 d).
ThresholdHours(job) ==
    CASE job = "db" -> 26
      [] job = "uploads" -> 30
      [] job = "verify" -> 7 * 24
      [] job = "snapshot" -> 8 * 24

\* Hours between the end of a run and the read of the summary.
Ages == {1, 30, 31, 200}

NoRun == [status |-> "none", age |-> 0]

\* A run is within its threshold.
Fresh(job, run) == run.age <= ThresholdHours(job)

\* The status of one job of the site: fail when its last run failed or it
\* has no run, warn when its last run was ok but is stale, else ok.
JobStatus(job, run) ==
    IF run.status \in {"none", "fail"} THEN "fail"
    ELSE IF ~Fresh(job, run) THEN "warn"
    ELSE "ok"

\* The site's overall status: the worst of its jobs.
OverallStatus(runs) ==
    IF \E j \in JobTypes : JobStatus(j, runs[j]) = "fail" THEN "fail"
    ELSE IF \E j \in JobTypes : JobStatus(j, runs[j]) = "warn" THEN "warn"
    ELSE "ok"

\* record(run) of a run of the job that ended age hours ago, then a read of
\* the summary.  The last run of a job is the one that ended last.
Record(job, status, age) ==
    /\ BackupOnly
    /\ lastRun[job].status = "none" \/ age <= lastRun[job].age
    /\ lastRun' = [lastRun EXCEPT ![job] = [status |-> status, age |-> age]]
    /\ overall' = OverallStatus(lastRun')

InitBackup ==
    /\ lastRun = [j \in JobTypes |-> NoRun]
    /\ overall = OverallStatus(lastRun)

NextBackup ==
    \E job \in JobTypes, status \in {"ok", "fail"}, age \in Ages :
        Record(job, status, age)

(***************************************************************************)
(* emit_result.sh (scripts/backups) posting a run to POST /backups/runs,   *)
(* and the ingester's record(run) (specification 4.10).                    *)
(***************************************************************************)
MaxRuns == 2         \* invocations of emit_result.sh
MaxNow == 2          \* seconds that pass between invocations

MAX_RETRIES == 3
RETRY_DELAY == 5

EmitOnly ==
    UNCHANGED <<clientVars, cacheVars, engineVars, monitorVars, provVars,
                statusVars, backupVars, formVars, detectVars,
                restoreVars,
                messageVars,
                menuVars,
                filterVars,
                subscriptionVars,
                snapshotVars,
                uploadsVars,
                weeklyVars>>

\* Arguments of an invocation: started 0 stands for an absent $4, which
\* defaults to $(date -Iseconds).
EmitJobs == {"db", "unknown"}
EmitStarted == {0, 1}
EmitBackupIds == {"null", "snap1"}

\* STARTED_AT="${4:-$(date -Iseconds)}"
StartedAt(arg, at) == IF arg = 0 THEN 1000 + at ELSE arg

\* RUN_ID="$(date +%Y%m%d%H%M%S)-${JOB_TYPE}-$$"
RunId(at, job, pid) == <<at, job, pid>>

\* JSON_PAYLOAD: built once, before the retry loop, from the arguments; run
\* is not part of the payload, it tells which invocation sent it.
PayloadPerAttempt(job, started, backupId, built, at, run) ==
    [site |-> "blog", job_type |-> job, started_at |-> StartedAt(started, at),
     backup_id |-> backupId, run |-> run]
Payload(job, started, backupId, built, at, run) ==
    [site |-> "blog", job_type |-> job, started_at |-> StartedAt(started, built),
     backup_id |-> backupId, run |-> run]

IdleEmit ==
    [pc |-> "idle", i |-> 0, retryDelay |-> 0, job |-> "none", started |-> 0,
     backupId |-> "null", built |-> 0, received |-> 0, exit |-> 0]

\* The script runs up to the retry loop: the payload is built and saved
\* under RUN_DIR.
EmitStart(job, started, backupId) ==
    /\ emit.pc = "idle"
    /\ runCount < MaxRuns
    /\ EmitOnly
    /\ runCount' = runCount + 1
    /\ emit' = [IdleEmit EXCEPT !.pc = "post", !.i = 1, !.retryDelay = RETRY_DELAY,
                                !.job = job, !.started = started,
                                !.backupId = backupId, !.built = hostTime]
    /\ savedRuns' = savedRuns \cup {RunId(hostTime, job, runCount')}
    /\ UNCHANGED <<runRows, hostTime>>

\* Two rows are the same run for the ingester: the same (site, job_type,
\* started_at) with the same source id.
SameRun(r, p) ==
    /\ r.site = p.site
    /\ r.job_type = p.job_type
    /\ r.started_at = p.started_at
    /\ r.backup_id = p.backup_id

\* record(run): an unknown job_type is rejected; a run that is already
\* there is not added again.
RecordRun(rows, p) ==
    IF p.job_type \notin JobTypes THEN rows
    ELSE IF \E k \in 1..Len(rows) : SameRun(rows[k], p) THEN rows
    ELSE Append(rows, p)

\* The code curl reports: the ingester's answer, or none when the request
\* or the response was lost.
HttpCode(p, reached, answered) ==
    IF ~reached \/ ~answered THEN "000"
    ELSE IF p.job_type \notin JobTypes THEN "422"
    ELSE "201"

\* One pass of the retry loop: the POST, which may or may not reach the
\* ingester and whose response may be lost; exit 0 on 200 / 201; else the
\* sleep with the doubled delay, or exit 1 after the last attempt.
EmitPost(reached, answered) ==
    /\ emit.pc = "post"
    /\ EmitOnly
    /\ LET p == Payload(emit.job, emit.started, emit.backupId, emit.built, hostTime,
                        runCount)
           code == HttpCode(p, reached, answered)
       IN  /\ runRows' = IF reached THEN RecordRun(runRows, p) ELSE runRows
           /\ IF code \in {"200", "201"}
              THEN /\ emit' = [emit EXCEPT !.pc = "idle", !.exit = 0,
                                          !.received = @ + 1]
                   /\ hostTime' = hostTime
              ELSE IF emit.i < MAX_RETRIES
              THEN /\ emit' = [emit EXCEPT !.i = @ + 1,
                                          !.retryDelay = @ * 2,
                                          !.received = IF reached THEN @ + 1 ELSE @]
                   /\ hostTime' = hostTime + emit.retryDelay
              ELSE /\ emit' = [emit EXCEPT !.pc = "idle", !.exit = 1,
                                          !.received = IF reached THEN @ + 1 ELSE @]
                   /\ hostTime' = hostTime
    /\ UNCHANGED <<savedRuns, runCount>>

\* A second goes by between two invocations.
SecondPasses ==
    /\ emit.pc = "idle"
    /\ hostTime < MaxNow
    /\ EmitOnly
    /\ hostTime' = hostTime + 1
    /\ UNCHANGED <<emit, runRows, savedRuns, runCount>>

InitEmit ==
    /\ emit = IdleEmit
    /\ runRows = <<>>
    /\ savedRuns = {}
    /\ runCount = 0
    /\ hostTime = 0

NextEmit ==
    \/ \E job \in EmitJobs, started \in EmitStarted, backupId \in EmitBackupIds :
          EmitStart(job, started, backupId)
    \/ \E reached, answered \in BOOLEAN : EmitPost(reached, answered)
    \/ SecondPasses

(***************************************************************************)
(* The provision forms: ProvisionForm (its earlier and its current         *)
(* version) and the provision bar of SimpleDashboard.                      *)
(***************************************************************************)
MaxNameLen == 3      \* characters typed into the name field

FormOnly ==
    UNCHANGED <<clientVars, cacheVars, engineVars, monitorVars, provVars,
                statusVars, backupVars, emitVars, detectVars,
                restoreVars,
                messageVars,
                menuVars,
                filterVars,
                subscriptionVars,
                snapshotVars,
                uploadsVars,
                weeklyVars>>

FormKinds == {"old", "form", "bar"}

\* Characters the user types.
TypedChars == {"a", "9", "-", "A", "_"}
TypedNames == UNION {[1..n -> TypedChars] : n \in 0..MaxNameLen}

IsAlnum(c) == c \in {"a", "9"}
IsNameChar(c) == IsAlnum(c) \/ c = "-"

\* String.prototype.toLowerCase, per character.
ToLower(c) == IF c = "A" THEN "a" ELSE c

LowerCased(s) == [i \in 1..Len(s) |-> ToLower(s[i])]

\* s.replace(/[^a-z0-9-]/g, '')
RECURSIVE StripNonName(_)
StripNonName(s) ==
    IF s = <<>> THEN <<>>
    ELSE IF IsNameChar(Head(s)) THEN <<Head(s)>> \o StripNonName(Tail(s))
    ELSE StripNonName(Tail(s))

\* onChange of the name field: the earlier ProvisionForm lower-cases, the
\* current one and the provision bar also strip every other character.
OnNameChange(kind, typed) ==
    IF kind = "old" THEN LowerCased(typed) ELSE StripNonName(LowerCased(typed))

\* name.match(/^[a-z0-9][a-z0-9-]*[a-z0-9]$/)
MatchesName(s) ==
    /\ Len(s) >= 2
    /\ IsAlnum(s[1])
    /\ IsAlnum(s[Len(s)])
    /\ \A i \in 2..(Len(s) - 1) : IsNameChar(s[i])

\* name.match(/^[a-z0-9]+$/)
MatchesAlnum(s) == Len(s) >= 1 /\ \A i \in 1..Len(s) : IsAlnum(s[i])

\* Whether the submit handler of the form rejects the name.
Rejects(kind, s) ==
    CASE kind = "old" -> ~MatchesName(s)
      [] kind = "form" -> ~MatchesName(s) /\ Len(s) >= 2 /\ ~MatchesAlnum(s)
      [] kind = "bar" -> ~MatchesName(s) /\ Len(s) > 1

NoRequest == [sent |-> FALSE, name |-> <<>>]

\* A form opens with an empty name.
OpenForm(kind) ==
    /\ formKind = "none"
    /\ FormOnly
    /\ formKind' = kind
    /\ provisionName' = <<>>
    /\ provisionError' = FALSE
    /\ UNCHANGED provisionRequest

\* The user edits the name field.
TypeName(typed) ==
    /\ formKind # "none"
    /\ FormOnly
    /\ provisionName' = OnNameChange(formKind, typed)
    /\ UNCHANGED <<formKind, provisionError, provisionRequest>>

\* The form is submitted (the name field is required, so it is not empty):
\* the handler validates the name; the current ProvisionForm then returns
\* when its source is incomplete; else POST /api/provision/ is sent.  When
\* the request succeeds the form closes.
SubmitForm(sourceReady, succeeds) ==
    /\ formKind # "none"
    /\ provisionName # <<>>
    /\ FormOnly
    /\ IF Rejects(formKind, provisionName)
       THEN /\ provisionError' = TRUE
            /\ UNCHANGED <<formKind, provisionName, provisionRequest>>
       ELSE IF formKind = "form" /\ ~sourceReady
       THEN /\ provisionError' = TRUE
            /\ UNCHANGED <<formKind, provisionName, provisionRequest>>
       ELSE /\ provisionRequest' = [sent |-> TRUE, name |-> provisionName]
            /\ provisionError' = ~succeeds
            /\ formKind' = IF succeeds THEN "none" ELSE formKind
            /\ provisionName' = IF succeeds THEN <<>> ELSE provisionName

InitForm ==
    /\ formKind = "none"
    /\ provisionName = <<>>
    /\ provisionError = FALSE
    /\ provisionRequest = NoRequest

NextForm ==
    \/ \E kind \in FormKinds : OpenForm(kind)
    \/ \E typed \in TypedNames : TypeName(typed)
    \/ \E sourceReady, succeeds \in BOOLEAN : SubmitForm(sourceReady, succeeds)

(***************************************************************************)
(* detectFromFiles: the client-side project-type detection of              *)
(* ProvisionForm and of SimpleDashboard.                                   *)
(***************************************************************************)
DetectOnly ==
    UNCHANGED <<clientVars, cacheVars, engineVars, monitorVars, provVars,
                statusVars, backupVars, emitVars, formVars,
                restoreVars,
                messageVars,
                menuVars,
                filterVars,
                subscriptionVars,
                snapshotVars,
                uploadsVars,
                weeklyVars>>

\* The markers, character by character.
PackageJson ==
    <<"p", "a", "c", "k", "a", "g", "e", ".", "j", "s", "o", "n">>
RequirementsTxt ==
    <<"r", "e", "q", "u", "i", "r", "e", "m", "e", "n", "t", "s", ".", "t",
      "x", "t">>
PyprojectToml ==
    <<"p", "y", "p", "r", "o", "j", "e", "c", "t", ".", "t", "o", "m", "l">>
ManagePy ==
    <<"m", "a", "n", "a", "g", "e", ".", "p", "y">>
WpConfigPhp ==
    <<"w", "p", "-", "c", "o", "n", "f", "i", "g", ".", "p", "h", "p">>
WpContentDir ==
    <<"w", "p", "-", "c", "o", "n", "t", "e", "n", "t", "/">>
WpContent ==
    <<"w", "p", "-", "c", "o", "n", "t", "e", "n", "t">>

\* Relative paths of files a user may select, besides the markers
\* themselves.
NestedPackageJson ==
    <<"a", "p", "p", "/", "p", "a", "c", "k", "a", "g", "e", ".", "j", "s",
      "o", "n">>
PackageJsonBak ==
    <<"p", "a", "c", "k", "a", "g", "e", ".", "j", "s", "o", "n", ".", "b",
      "a", "k">>
WpContentFile ==
    <<"w", "p", "-", "c", "o", "n", "t", "e", "n", "t", "/", "a", ".", "p",
      "h", "p">>
IndexHtml ==
    <<"i", "n", "d", "e", "x", ".", "h", "t", "m", "l">>

SelectablePaths ==
    {PackageJson, NestedPackageJson, PackageJsonBak, RequirementsTxt,
     PyprojectToml, ManagePy, WpConfigPhp, WpContentFile, IndexHtml}

\* s.split('/')
RECURSIVE SplitPath(_, _)
SplitPath(s, cur) ==
    IF s = <<>> THEN <<cur>>
    ELSE IF Head(s) = "/" THEN <<cur>> \o SplitPath(Tail(s), <<>>)
    ELSE SplitPath(Tail(s), Append(cur, Head(s)))

\* f.name.split('/').pop() || f.name
BaseName(p) ==
    LET parts == SplitPath(p, <<>>)
    IN  IF parts[Len(parts)] # <<>> THEN parts[Len(parts)] ELSE p

\* fileNames.includes(m) || paths.some(p => p.includes(m))
HasMarkerForm(files, m) ==
    \/ \E f \in files : BaseName(f) = m
    \/ \E f \in files : Includes(f, m)

\* fileNames.some(f => f.includes(m)), on the relative paths
HasMarkerBar(files, m) == \E f \in files : Includes(f, m)

\* detectFromFiles of ProvisionForm
DetectFromFilesForm(files) ==
    IF HasMarkerForm(files, PackageJson) THEN "node"
    ELSE IF HasMarkerForm(files, RequirementsTxt) THEN "python"
    ELSE IF HasMarkerForm(files, PyprojectToml) THEN "python"
    ELSE IF HasMarkerForm(files, ManagePy) THEN "python"
    ELSE IF HasMarkerForm(files, WpConfigPhp) THEN "wordpress"
    ELSE IF \E f \in files : Includes(f, WpContentDir) THEN "wordpress"
    ELSE "static"

\* detectFromFiles of SimpleDashboard
DetectFromFilesBar(files) ==
    IF HasMarkerBar(files, PackageJson) THEN "node"
    ELSE IF HasMarkerBar(files, RequirementsTxt) THEN "python"
    ELSE IF HasMarkerBar(files, PyprojectToml) THEN "python"
    ELSE IF HasMarkerBar(files, ManagePy) THEN "python"
    ELSE IF HasMarkerBar(files, WpConfigPhp) THEN "wordpress"
    ELSE IF HasMarkerBar(files, WpContentDir) THEN "wordpress"
    ELSE "static"

\* The user selects a folder; both forms detect the project type from its
\* files.
SelectFiles(files) ==
    /\ DetectOnly
    /\ selectedFiles' = files
    /\ detectedType' = [form |-> DetectFromFilesForm(files),
                        bar |-> DetectFromFilesBar(files)]

InitDetect ==
    /\ selectedFiles = {}
    /\ detectedType = [form |-> "static", bar |-> "static"]

NextDetect == \E files \in SUBSET SelectablePaths : SelectFiles(files)

(***************************************************************************)
(* restore.sh (scripts/backups).                                           *)
(***************************************************************************)
RestoreOnly ==
    UNCHANGED <<clientVars, cacheVars, engineVars, monitorVars, provVars,
                statusVars, backupVars, emitVars, formVars, detectVars,
                messageVars,
                menuVars,
                filterVars,
                subscriptionVars,
                snapshotVars,
                uploadsVars,
                weeklyVars>>

\* What follows --site and --timestamp on the command line: nothing (the
\* option is absent), a value, or the next option, which the parser then
\* takes as the value ("shift 2").
SiteArgs == {"", "myblog", "--dry-run"}
TimestampArgs == {"", "latest", "--dry-run"}

\* The command lines: dryRun and confirmed tell whether --dry-run and
\* --i-understand-risk stand where the parser reads them as options.
CommandLines ==
    [site : SiteArgs, timestamp : TimestampArgs, restoreDb : BOOLEAN,
     restoreUploads : BOOLEAN, dryRun : BOOLEAN, confirmed : BOOLEAN]

\* The command line holds --dry-run, as an option or as a swallowed value.
HasDryRun(argv) ==
    argv.dryRun \/ argv.site = "--dry-run" \/ argv.timestamp = "--dry-run"

NothingDone ==
    [listed |-> {}, extracted |-> FALSE, imported |-> FALSE, moved |-> FALSE,
     restored |-> FALSE, resticFailed |-> FALSE]

IdleRestore ==
    [pc |-> "idle", SITE |-> "", TIMESTAMP |-> "", RESTORE_DB |-> FALSE,
     RESTORE_UPLOADS |-> FALSE, DRY_RUN |-> FALSE, CONFIRMED |-> FALSE,
     exit |-> 0]

\* The argument loop.
RestoreStart(argv) ==
    /\ restore.pc \in {"idle", "exited"}
    /\ RestoreOnly
    /\ restoreArgv' = argv
    /\ restoreDone' = NothingDone
    /\ restore' = [pc |-> "validate", SITE |-> argv.site,
                   TIMESTAMP |-> argv.timestamp, RESTORE_DB |-> argv.restoreDb,
                   RESTORE_UPLOADS |-> argv.restoreUploads,
                   DRY_RUN |-> argv.dryRun, CONFIRMED |-> argv.confirmed,
                   exit |-> 0]

\* The last check of the argument validation.
ConfirmationNotChecked(dryRun, confirmed) == FALSE
NeedsConfirmation(dryRun, confirmed) == ~dryRun /\ ~confirmed

Exit(code) == [restore EXCEPT !.pc = "exited", !.exit = code]

\* "Validate arguments"
RestoreValidate ==
    /\ restore.pc = "validate"
    /\ RestoreOnly
    /\ restore' =
          IF restore.SITE = "" THEN Exit(1)
          ELSE IF restore.TIMESTAMP = "" THEN Exit(1)
          ELSE IF ~restore.RESTORE_DB /\ ~restore.RESTORE_UPLOADS THEN Exit(1)
          ELSE IF NeedsConfirmation(restore.DRY_RUN, restore.CONFIRMED) THEN Exit(1)
          ELSE [restore EXCEPT !.pc = "db"]
    /\ UNCHANGED <<restoreArgv, restoreDone>>

\* find_snapshot: the short id of the snapshot restic reports, empty when
\* it reports none; a timestamp other than "latest" selects the snapshots
\* whose time starts with it, and no time starts with an option name.
FindSnapshot(inRepo) ==
    IF restore.TIMESTAMP = "latest" /\ inRepo THEN "abc123" ELSE ""

\* The first running container named <SITE>-db, <SITE>_mysql, ...; no
\* container name starts with a dash.
FindDbContainer(isRunning) ==
    IF restore.SITE = "myblog" /\ isRunning THEN "myblog-db" ELSE ""

\* The first candidate under <SITES_ROOT>/<SITE> that exists or whose
\* parent exists; sites live in directories named after them.
FindUploadsPath(present) ==
    IF restore.SITE = "myblog" /\ present
    THEN "myblog/wp-content/uploads" ELSE ""

\* "Restore database"
RestoreDatabase(inRepo, containerFound, sqlFound) ==
    /\ restore.pc = "db"
    /\ RestoreOnly
    /\ IF ~restore.RESTORE_DB
       THEN /\ restore' = [restore EXCEPT !.pc = "uploads"]
            /\ UNCHANGED restoreDone
       ELSE IF FindSnapshot(inRepo) = "" \/ FindDbContainer(containerFound) = ""
       THEN /\ restore' = Exit(1)
            /\ UNCHANGED restoreDone
       ELSE IF restore.DRY_RUN
       THEN /\ restore' = [restore EXCEPT !.pc = "uploads"]
            /\ restoreDone' = [restoreDone EXCEPT !.listed = @ \cup {"db"}]
       ELSE IF ~sqlFound
       THEN /\ restore' = Exit(1)
            /\ restoreDone' = [restoreDone EXCEPT !.extracted = TRUE]
       ELSE /\ restore' = [restore EXCEPT !.pc = "uploads"]
            /\ restoreDone' = [restoreDone EXCEPT !.extracted = TRUE,
                                                  !.imported = TRUE]
    /\ UNCHANGED restoreArgv

\* "Restore uploads", and the end of the script.
RestoreUploads(inRepo, pathFound, dirExists, resticExit) ==
    /\ restore.pc = "uploads"
    /\ RestoreOnly
    /\ IF ~restore.RESTORE_UPLOADS
       THEN /\ restore' = Exit(0)
            /\ UNCHANGED restoreDone
       ELSE IF FindSnapshot(inRepo) = "" \/ FindUploadsPath(pathFound) = ""
       THEN /\ restore' = Exit(1)
            /\ UNCHANGED restoreDone
       ELSE IF restore.DRY_RUN
       THEN /\ restore' = Exit(0)
            /\ restoreDone' = [restoreDone EXCEPT !.listed = @ \cup {"uploads"}]
       ELSE /\ restore' = Exit(resticExit)
            /\ restoreDone' = [restoreDone EXCEPT
                                 !.moved = dirExists,
                                 !.restored = (resticExit = 0),
                                 !.resticFailed = (resticExit # 0)]
    /\ UNCHANGED restoreArgv

InitRestore ==
    /\ restore = IdleRestore
    /\ restoreArgv = [site |-> "", timestamp |-> "", restoreDb |-> FALSE,
                      restoreUploads |-> FALSE, dryRun |-> FALSE,
                      confirmed |-> FALSE]
    /\ restoreDone = NothingDone

NextRestore ==
    \/ \E argv \in CommandLines : RestoreStart(argv)
    \/ RestoreValidate
    \/ \E inRepo, containerFound, sqlFound \in BOOLEAN :
          RestoreDatabase(inRepo, containerFound, sqlFound)
    \/ \E inRepo, pathFound, dirExists \in BOOLEAN, resticExit \in {0, 1} :
          RestoreUploads(inRepo, pathFound, dirExists, resticExit)

(***************************************************************************)
(* The message path of the client: WebSocketClient.onmessage and the       *)
(* handler that WebSocketProvider registers.                               *)
(***************************************************************************)
MessagesOnly ==
    UNCHANGED <<clientVars, cacheVars, engineVars, monitorVars, provVars,
                statusVars, backupVars, emitVars, formVars, detectVars,
                restoreVars,
                menuVars,
                filterVars,
                subscriptionVars,
                snapshotVars,
                uploadsVars,
                weeklyVars>>

\* event.data of the frames that arrive
Frames ==
    {"{\"type\":\"sites.update\",\"data\":\"s1\"}",
     "{\"type\":\"sites.update\",\"data\":\"s2\"}",
     "{\"type\":\"graph.update\",\"data\":\"g1\"}",
     "{\"type\":\"graph.update\",\"data\":\"g2\"}",
     "{\"type\":\"pong\"}",
     "{\"type\":\"action.output\",\"data\":\"line\"}",
     "{\"type\":\"error\",\"data\":\"boom\"}",
     "{\"type\":\"Sites.Update\",\"data\":\"s1\"}",
     "{\"type\":\"sites.update\",\"data\":",
     "not json",
     "null"}

Message(type, data) == [thrown |-> FALSE, isNull |-> FALSE, type |-> type, data |-> data]

Thrown == [thrown |-> TRUE, isNull |-> FALSE, type |-> "", data |-> ""]

\* JSON.parse on the frames above: the value, or a thrown SyntaxError
JsonParse(text) ==
    CASE text = "{\"type\":\"sites.update\",\"data\":\"s1\"}" -> Message("sites.update", "s1")
      [] text = "{\"type\":\"sites.update\",\"data\":\"s2\"}" -> Message("sites.update", "s2")
      [] text = "{\"type\":\"graph.update\",\"data\":\"g1\"}" -> Message("graph.update", "g1")
      [] text = "{\"type\":\"graph.update\",\"data\":\"g2\"}" -> Message("graph.update", "g2")
      [] text = "{\"type\":\"pong\"}" -> Message("pong", "undefined")
      [] text = "{\"type\":\"action.output\",\"data\":\"line\"}" -> Message("action.output", "line")
      [] text = "{\"type\":\"error\",\"data\":\"boom\"}" -> Message("error", "boom")
      [] text = "{\"type\":\"Sites.Update\",\"data\":\"s1\"}" -> Message("Sites.Update", "s1")
      [] text = "null" -> [Thrown EXCEPT !.thrown = FALSE, !.isNull = TRUE]
      [] OTHER -> Thrown

\* The provider's handler on a parsed message: the cache afterwards.  On
\* null the read of message.type throws, and onmessage catches it.
EveryMessageIsSites(data, message) == [data EXCEPT !.sites = message.data]
Handler(data, message) ==
    IF message.isNull THEN data
    ELSE IF message.type = "sites.update"
    THEN [data EXCEPT !.sites = message.data]
    ELSE IF message.type = "graph.update"
    THEN [data EXCEPT !.graph = message.data]
    ELSE data

\* this.ws.onmessage
OnMessage(text) ==
    /\ readyState = "OPEN"
    /\ MessagesOnly
    /\ lastFrame' = text
    /\ frameTick' = 1 - frameTick
    /\ LET message == JsonParse(text)
       IN  IF message.thrown
           THEN UNCHANGED <<queryData, lastMessage>>
           ELSE /\ lastMessage' = message
                /\ queryData' = Handler(queryData, message)
    /\ UNCHANGED readyState

\* The queries' own fetches: GET /api/sites/ or /api/graph/ answers.
QueryFetched(key, response) ==
    /\ MessagesOnly
    /\ queryData' = [queryData EXCEPT ![key] = response]
    /\ UNCHANGED <<lastMessage, readyState, lastFrame, frameTick>>

\* ws.onopen and ws.onclose as the message path sees them
ReadyStateChanges ==
    /\ MessagesOnly
    /\ readyState' = IF readyState = "OPEN" THEN "CLOSED" ELSE "OPEN"
    /\ UNCHANGED <<queryData, lastMessage, lastFrame, frameTick>>

InitMessages ==
    /\ queryData = [sites |-> "undefined", graph |-> "undefined"]
    /\ lastMessage = [Thrown EXCEPT !.thrown = FALSE, !.isNull = TRUE]
    /\ readyState = "CONNECTING"
    /\ lastFrame = ""
    /\ frameTick = 0

NextMessages ==
    \/ \E text \in Frames : OnMessage(text)
    \/ \E response \in {"s0", "s1"} : QueryFetched("sites", response)
    \/ QueryFetched("graph", "g0")
    \/ ReadyStateChanges

(***************************************************************************)
(* ContextMenu (the component SiteCard wraps its card in).                 *)
(***************************************************************************)
MaxMenuClock == 500
MaxTimeouts == 2
LongPressMs == 500
MoveThreshold == 10

MenuOnly ==
    UNCHANGED <<clientVars, cacheVars, engineVars, monitorVars, provVars,
                statusVars, backupVars, emitVars, formVars, detectVars,
                restoreVars, messageVars,
                filterVars,
                subscriptionVars,
                snapshotVars,
                uploadsVars,
                weeklyVars>>

Fingers == {1, 2}

\* clientX / clientY of the touch points used
Points ==
    {[x |-> 100, y |-> 100], [x |-> 110, y |-> 100], [x |-> 100, y |-> 111]}

NullPos == [x |-> -1, y |-> -1]

Abs(n) == IF n < 0 THEN -n ELSE n

\* dx > 10 || dy > 10
MovedTooFar(touch, startPos) ==
    \/ Abs(touch.x - startPos.x) > MoveThreshold
    \/ Abs(touch.y - startPos.y) > MoveThreshold

ClearTimeout(id) == {t \in timeouts : t.id # id}

\* openMenu as a closure over the disabled prop of its render
OpenMenu(closedOver, cause) ==
    IF closedOver
    THEN UNCHANGED <<isOpen, openedBy>>
    ELSE isOpen' = TRUE /\ openedBy' = cause

\* A finger comes down on the container: the touchstart event.
HandleTouchStart(finger, point) ==
    /\ \A i \in 1..Len(touches) : touches[i].id # finger
    /\ disabled \/ Cardinality(timeouts) < MaxTimeouts
    /\ MenuOnly
    /\ touches' = Append(touches, [id |-> finger, pos |-> point, start |-> point,
                                   since |-> menuClock, strayed |-> FALSE])
    /\ IF disabled
       THEN UNCHANGED <<longPressTimer, touchStartPos, timeouts>>
       ELSE LET id == CHOOSE i \in 1..MaxTimeouts :
                         /\ \A t \in timeouts : t.id # i
                         /\ \A j \in 1..(i - 1) : \E t \in timeouts : t.id = j
            IN  /\ touchStartPos' = touches'[1].pos
                /\ timeouts' = timeouts \cup
                      {[id |-> id, due |-> menuClock + LongPressMs,
                        disabled |-> disabled]}
                /\ longPressTimer' = id
    /\ UNCHANGED <<isOpen, disabled, menuClock, openedBy>>

\* The finger of e.touches[0] moves: the touchmove event.  (A move of
\* another finger runs the same handler on an unchanged e.touches[0].)
HandleTouchMove(i, point) ==
    /\ i = 1 /\ touches # <<>>
    /\ touches[i].pos # point
    /\ MenuOnly
    /\ touches' = [touches EXCEPT ![i].pos = point,
                       ![i].strayed = @ \/ MovedTooFar(point, touches[i].start)]
    /\ IF touchStartPos = NullPos \/ longPressTimer = 0
       THEN UNCHANGED <<longPressTimer, timeouts>>
       ELSE IF MovedTooFar(touches'[1].pos, touchStartPos)
       THEN /\ timeouts' = ClearTimeout(longPressTimer)
            /\ longPressTimer' = 0
       ELSE UNCHANGED <<longPressTimer, timeouts>>
    /\ UNCHANGED <<isOpen, disabled, touchStartPos, menuClock, openedBy>>

\* A finger lifts or its touch is cancelled: touchend and touchcancel.
HandleTouchEnd(i) ==
    /\ i \in 1..Len(touches)
    /\ MenuOnly
    /\ touches' = [j \in 1..(Len(touches) - 1) |->
                      IF j < i THEN touches[j] ELSE touches[j + 1]]
    /\ timeouts' = IF longPressTimer # 0 THEN ClearTimeout(longPressTimer)
                   ELSE timeouts
    /\ longPressTimer' = 0
    /\ touchStartPos' = NullPos
    /\ UNCHANGED <<isOpen, disabled, menuClock, openedBy>>

\* The callback of a timeout set by handleTouchStart.
LongPressFires(id) ==
    /\ \E t \in timeouts :
          /\ t.id = id
          /\ t.due <= menuClock
          /\ IF touchStartPos # NullPos
             THEN OpenMenu(t.disabled, "longpress")
             ELSE UNCHANGED <<isOpen, openedBy>>
    /\ MenuOnly
    /\ timeouts' = ClearTimeout(id)
    /\ longPressTimer' = IF longPressTimer = id THEN -1 ELSE longPressTimer
    /\ UNCHANGED <<disabled, touchStartPos, touches, menuClock>>

\* A right-click on the container.
HandleContextMenu ==
    /\ MenuOnly
    /\ OpenMenu(disabled, "contextmenu")
    /\ UNCHANGED <<disabled, longPressTimer, touchStartPos, timeouts, touches,
                   menuClock>>

\* Escape, a mousedown outside the menu, or a click on an action.
MenuCloses ==
    /\ isOpen
    /\ MenuOnly
    /\ isOpen' = FALSE
    /\ UNCHANGED <<disabled, longPressTimer, touchStartPos, timeouts, touches,
                   menuClock, openedBy>>

\* SiteCard renders the menu with disabled={isActionPending}.
SetDisabled ==
    /\ MenuOnly
    /\ disabled' = ~disabled
    /\ UNCHANGED <<isOpen, longPressTimer, touchStartPos, timeouts, touches,
                   menuClock, openedBy>>

\* 250 ms pass; a timeout that is due runs first.
MenuTimePasses ==
    /\ menuClock + 250 <= MaxMenuClock
    /\ \A t \in timeouts : t.due > menuClock
    /\ MenuOnly
    /\ menuClock' = menuClock + 250
    /\ UNCHANGED <<isOpen, disabled, longPressTimer, touchStartPos, timeouts,
                   touches, openedBy>>

InitMenu ==
    /\ isOpen = FALSE
    /\ disabled = FALSE
    /\ longPressTimer = 0
    /\ touchStartPos = NullPos
    /\ timeouts = {}
    /\ touches = <<>>
    /\ menuClock = 0
    /\ openedBy = "none"

NextMenu ==
    \/ \E finger \in Fingers, point \in Points : HandleTouchStart(finger, point)
    \/ \E point \in Points : HandleTouchMove(1, point)
    \/ \E i \in 1..2 : HandleTouchEnd(i)
    \/ \E id \in 1..MaxTimeouts : LongPressFires(id)
    \/ HandleContextMenu
    \/ MenuCloses
    \/ SetDisabled
    \/ MenuTimePasses

(***************************************************************************)
(* filterSites (SiteFilterBar.tsx).  Names are character sequences, so     *)
(* that toLowerCase is computed.                                           *)
(***************************************************************************)
MaxSites == 2

FilterOnly ==
    UNCHANGED <<clientVars, cacheVars, engineVars, monitorVars, provVars,
                statusVars, backupVars, emitVars, formVars, detectVars,
                restoreVars, messageVars, menuVars,
                subscriptionVars,
                snapshotVars,
                uploadsVars,
                weeklyVars>>

SiteFilters == {"all", "issues", "stopped", "backup_warnings"}

FilterNames == {<<"a">>, <<"A">>, <<"9">>}

FilterSiteRecords == [name : FilterNames, status : {"running", "stopped", "degraded"}]

\* Site[] | undefined
Undefined == [defined |-> FALSE, list |-> <<>>]

Defined(list) == [defined |-> TRUE, list |-> list]

SiteLists ==
    {Undefined} \cup
    {Defined(l) : l \in UNION {[1..n -> FilterSiteRecords] : n \in 0..MaxSites}}

\* A monitor of the health response; uptime in percent, hasUptime FALSE
\* for undefined, hasHeartbeats FALSE for a monitor without the array.
NoMonitor ==
    [present |-> FALSE, hasHeartbeats |-> FALSE, heartbeats |-> <<>>,
     hasUptime |-> FALSE, uptime |-> 0]

Monitor(hasHeartbeats, heartbeats, hasUptime, uptime) ==
    [present |-> TRUE, hasHeartbeats |-> hasHeartbeats, heartbeats |-> heartbeats,
     hasUptime |-> hasUptime, uptime |-> uptime]

MonitorSamples ==
    {NoMonitor,
     Monitor(FALSE, <<>>, FALSE, 0),
     Monitor(TRUE, <<1>>, TRUE, 100),
     Monitor(TRUE, <<1, 0>>, TRUE, 100),
     Monitor(TRUE, <<2>>, TRUE, 98),
     Monitor(TRUE, <<>>, TRUE, 99)}

\* healthData: undefined, or the monitors by name
NoHealth ==
    [defined |-> FALSE, monitors |-> [k \in {<<"a">>, <<"A">>} |-> NoMonitor]]

HealthSamples ==
    {NoHealth} \cup
    {[defined |-> TRUE, monitors |-> m] :
        m \in [{<<"a">>, <<"A">>} -> MonitorSamples]}

BackupEntries == [site : FilterNames, overall_status : {"ok", "warn", "fail"}]

\* backupData: undefined, or the summary, one entry per site of the host
BackupSamples ==
    {Undefined} \cup
    {Defined(l) : l \in {b \in UNION {[1..n -> BackupEntries] : n \in 0..2} :
        \A i, j \in 1..Len(b) :
            i # j => LowerCased(b[i].site) # LowerCased(b[j].site)}}

\* healthData?.monitors?.[site.name] || healthData?.monitors?.[lower]
MonitorFor(site, healthData) ==
    IF ~healthData.defined THEN NoMonitor
    ELSE IF site.name \in DOMAIN healthData.monitors
            /\ healthData.monitors[site.name].present
    THEN healthData.monitors[site.name]
    ELSE IF LowerCased(site.name) \in DOMAIN healthData.monitors
    THEN healthData.monitors[LowerCased(site.name)]
    ELSE NoMonitor

\* monitor.heartbeats?.some(h => h.status === 0), undefined being falsy
IsDown(monitor) ==
    /\ monitor.hasHeartbeats
    /\ \E i \in 1..Len(monitor.heartbeats) : monitor.heartbeats[i] = 0

LowUptimeAt99(monitor) == monitor.hasUptime /\ monitor.uptime <= 99
LowUptime(monitor) == monitor.hasUptime /\ monitor.uptime < 99

\* backupData?.sites?.find(b => b.site === name || b.site === lower)
RECURSIVE Find(_, _)
Find(entries, site) ==
    IF entries = <<>> THEN [found |-> FALSE, overall_status |-> ""]
    ELSE IF Head(entries).site = site.name
            \/ Head(entries).site = LowerCased(site.name)
    THEN [found |-> TRUE, overall_status |-> Head(entries).overall_status]
    ELSE Find(Tail(entries), site)

\* The callback of sites.filter
Keeps(site, filter, healthData, backupData) ==
    IF filter = "stopped"
    THEN site.status = "stopped" \/ site.status = "degraded"
    ELSE IF filter = "issues"
    THEN LET monitor == MonitorFor(site, healthData)
         IN  IF ~monitor.present THEN FALSE
             ELSE IsDown(monitor) \/ LowUptime(monitor)
    ELSE IF filter = "backup_warnings"
    THEN LET backupStatus == IF backupData.defined
                             THEN Find(backupData.list, site)
                             ELSE Find(<<>>, site)
         IN  /\ backupStatus.found
             /\ (backupStatus.overall_status = "warn"
                 \/ backupStatus.overall_status = "fail")
    ELSE TRUE

\* Array.prototype.filter
RECURSIVE ArrayFilter(_, _, _, _)
ArrayFilter(list, filter, healthData, backupData) ==
    IF list = <<>> THEN <<>>
    ELSE (IF Keeps(Head(list), filter, healthData, backupData)
          THEN <<Head(list)>> ELSE <<>>)
         \o ArrayFilter(Tail(list), filter, healthData, backupData)

filterSites(sites, filter, healthData, backupData) ==
    IF ~sites.defined \/ filter = "all" THEN sites
    ELSE Defined(ArrayFilter(sites.list, filter, healthData, backupData))

\* computeFilterCounts: what its loop adds for one site
StoppedOnly(site) == site.status = "stopped"
CountsAsStopped(site) == site.status = "stopped" \/ site.status = "degraded"

CountsAsIssue(site, healthData) ==
    LET monitor == MonitorFor(site, healthData)
    IN  monitor.present /\ (IsDown(monitor) \/ LowUptime(monitor))

CountsAsBackupWarning(site, backupData) ==
    LET backupStatus == IF backupData.defined THEN Find(backupData.list, site)
                        ELSE Find(<<>>, site)
    IN  /\ backupStatus.found
        /\ (backupStatus.overall_status = "warn"
            \/ backupStatus.overall_status = "fail")

\* for (const site of sites) { ... } on the counts so far
RECURSIVE CountLoop(_, _, _, _)
CountLoop(list, healthData, backupData, counts) ==
    IF list = <<>> THEN counts
    ELSE LET site == Head(list)
         IN  CountLoop(Tail(list), healthData, backupData,
                [all |-> counts.all,
                 issues |-> counts.issues
                     + (IF CountsAsIssue(site, healthData) THEN 1 ELSE 0),
                 stopped |-> counts.stopped
                     + (IF CountsAsStopped(site) THEN 1 ELSE 0),
                 backup_warnings |-> counts.backup_warnings
                     + (IF CountsAsBackupWarning(site, backupData) THEN 1 ELSE 0)])

computeFilterCounts(sites, healthData, backupData) ==
    IF ~sites.defined
    THEN [all |-> 0, issues |-> 0, stopped |-> 0, backup_warnings |-> 0]
    ELSE CountLoop(sites.list, healthData, backupData,
                   [all |-> Len(sites.list), issues |-> 0, stopped |-> 0,
                    backup_warnings |-> 0])

NoCounts == [all |-> -1, issues |-> -1, stopped |-> -1, backup_warnings |-> -1]

NoFilterCall ==
    [sites |-> Undefined, filter |-> "all", healthData |-> NoHealth,
     backupData |-> Undefined]

\* A caller filters a list with the data it holds.
CallFilterSites(sites, filter, healthData, backupData) ==
    /\ filterArgs = NoFilterCall
    /\ FilterOnly
    /\ filterArgs' = [sites |-> sites, filter |-> filter,
                      healthData |-> healthData, backupData |-> backupData]
    /\ filterResult' = filterSites(sites, filter, healthData, backupData)
    /\ UNCHANGED filterCounts

\* SiteFilterBar renders with the same data.
RenderFilterBar ==
    /\ filterArgs # NoFilterCall
    /\ filterCounts = NoCounts
    /\ FilterOnly
    /\ filterCounts' = computeFilterCounts(filterArgs.sites, filterArgs.healthData,
                                           filterArgs.backupData)
    /\ UNCHANGED <<filterArgs, filterResult>>

\* The calls are independent of each other: the next starts afresh.
FilterCallEnds ==
    /\ filterArgs # NoFilterCall
    /\ FilterOnly
    /\ filterArgs' = NoFilterCall
    /\ filterResult' = Undefined
    /\ filterCounts' = NoCounts

InitFilter ==
    /\ filterArgs = NoFilterCall
    /\ filterResult = Undefined
    /\ filterCounts = NoCounts

NextFilter ==
    \/ /\ filterArgs = NoFilterCall
       /\ \E sites \in SiteLists :
             \/ \E healthData \in HealthSamples :
                   CallFilterSites(sites, "issues", healthData, Undefined)
             \/ \E backupData \in BackupSamples :
                   CallFilterSites(sites, "backup_warnings",
                                   NoHealth, backupData)
             \/ \E filter \in {"all", "stopped"} :
                   CallFilterSites(sites, filter, NoHealth,
                                   Defined(<<[site |-> <<"a">>, overall_status |-> "fail"]>>))
    \/ RenderFilterBar
    \/ FilterCallEnds

(***************************************************************************)
(* WebSocketClient under any caller: besides the provider's calls,         *)
(* connect() is called again on the client while it is in use.             *)
(***************************************************************************)

\* connect() called by a user of the client, before any reconnect has been
\* scheduled.
ConnectAgain(s) ==
    /\ mounted = "yes"
    /\ reconnectAttempts = 0
    /\ timers = <<>>
    /\ ClientOnly
    /\ ConnectCall(timers, s, FALSE)
    /\ UNCHANGED <<pingInterval, activePings, providerKind, mounted, handlers,
                   statusHandlers, statusInterval, wasConnected,
                   isConnectedState, sitesStale, graphStale, sitesFetching,
                   quiet, syncPending>>

NextSocket ==
    \/ NextClient
    \/ \E s \in Sockets : ConnectAgain(s)

(***************************************************************************)
(* Subscriptions through the WebSocketClient: send, subscribe and          *)
(* unsubscribe of websocket.ts on a socket that connects, opens, closes    *)
(* and is replaced by the socket of the next reconnect.                    *)
(***************************************************************************)
MaxConnections == 3     \* WebSocket objects created one after the other

SubscribeOnly ==
    UNCHANGED <<clientVars, cacheVars, engineVars, monitorVars, provVars,
                statusVars, backupVars, emitVars, formVars, detectVars,
                restoreVars, messageVars, menuVars, filterVars,
                snapshotVars,
                uploadsVars,
                weeklyVars>>

Topics == {"sites", "graph", "actions"}

\* What a message that went out on the connection makes of the topic set
\* the hub holds for that connection (specification: Subscription is
\* {connection_id, topics set, ...}; subscribe{topic}, unsubscribe{topic}).
Delivered(held, message) ==
    CASE message.type = "subscribe" -> held \cup {message.topic}
      [] message.type = "unsubscribe" -> held \ {message.topic}
      [] OTHER -> held

\* send(message): ws.send when the socket is open, console.warn otherwise.
send(l, message) ==
    IF l.readyState = "open"
    THEN Delivered(l.held, message)
    ELSE l.held

\* subscribe(topic)
subscribe(topic) ==
    /\ SubscribeOnly
    /\ link' = [link EXCEPT
                  !.held = send(link, [type |-> "subscribe", topic |-> topic]),
                  !.wanted = @ \cup {topic}]

\* unsubscribe(topic)
unsubscribe(topic) ==
    /\ SubscribeOnly
    /\ link' = [link EXCEPT
                  !.held = send(link, [type |-> "unsubscribe", topic |-> topic]),
                  !.wanted = @ \ {topic}]

\* connect(): new WebSocket(url), on mount and from the reconnect timeout.
LinkConnect ==
    /\ link.readyState \in {"none", "closed"}
    /\ link.connection < MaxConnections
    /\ SubscribeOnly
    /\ link' = [link EXCEPT !.readyState = "connecting",
                            !.connection = @ + 1,
                            !.held = {}]

\* onopen: resets the attempts, starts the ping, notifies the status
\* handlers; it sends nothing.
LinkOpen ==
    /\ link.readyState = "connecting"
    /\ SubscribeOnly
    /\ link' = [link EXCEPT !.readyState = "open"]

\* onclose: the connection and what the server held for it are gone.
LinkClose ==
    /\ link.readyState \in {"connecting", "open"}
    /\ SubscribeOnly
    /\ link' = [link EXCEPT !.readyState = "closed", !.held = {}]

InitSubscribe ==
    link = [readyState |-> "none", connection |-> 0, wanted |-> {}, held |-> {}]

NextSubscribe ==
    \/ \E topic \in Topics : subscribe(topic)
    \/ \E topic \in Topics : unsubscribe(topic)
    \/ LinkConnect
    \/ LinkOpen
    \/ LinkClose

(***************************************************************************)
(* The ['sites'] query: written by the provider's handler on every         *)
(* sites.update and by the answer of every GET /api/sites/ that useSites,  *)
(* an invalidation or the refetch after a site action starts.  A snapshot  *)
(* is stood for by its updated_at.                                         *)
(***************************************************************************)
MaxSnapshots == 3       \* snapshots the server produces after the first

SnapshotOnly ==
    UNCHANGED <<clientVars, cacheVars, engineVars, monitorVars, provVars,
                statusVars, backupVars, emitVars, formVars, detectVars,
                restoreVars, messageVars, menuVars, filterVars,
                subscriptionVars,
                uploadsVars,
                weeklyVars>>

NoFetch == [state |-> "none", cause |-> "", updated_at |-> -1]

\* What starts a fetch of ['sites']: the invalidation at a reconnect, the
\* 60 s refetchInterval, setTimeout(() => refetchSites(), 2000).
FetchCauses == {"invalidate", "poll", "action"}

\* The sites change on the host: the server has a newer snapshot.
ServerChanges ==
    /\ sitesQuery.server < MaxSnapshots
    /\ SnapshotOnly
    /\ sitesQuery' = [sitesQuery EXCEPT !.server = @ + 1]

\* The handler on a sites.update carrying the server's snapshot:
\* queryClient.setQueryData(['sites'], message.data); a fetch in flight
\* goes on.
SitesUpdateApplied ==
    /\ SnapshotOnly
    /\ sitesQuery' = [sitesQuery EXCEPT !.cached = sitesQuery.server,
                                        !.by = "push"]

\* The data the query holds after its queryFn resolved with a response.
FetchedData(cached, updated_at) == updated_at

\* A GET /api/sites/ goes out; a refetch replaces the fetch in flight, the
\* interval leaves it alone.
FetchStarts(cause) ==
    /\ cause = "poll" => sitesQuery.fetch.state = "none"
    /\ SnapshotOnly
    /\ sitesQuery' = [sitesQuery EXCEPT
                        !.fetch = [state |-> "sent", cause |-> cause,
                                   updated_at |-> -1]]

\* The server answers the request with the snapshot it has.
ServerAnswers ==
    /\ sitesQuery.fetch.state = "sent"
    /\ SnapshotOnly
    /\ sitesQuery' = [sitesQuery EXCEPT
                        !.fetch.state = "answered",
                        !.fetch.updated_at = sitesQuery.server]

\* The response arrives: the queryFn of useSites returns data.
FetchResolves ==
    /\ sitesQuery.fetch.state = "answered"
    /\ SnapshotOnly
    /\ sitesQuery' = [sitesQuery EXCEPT
                        !.cached = FetchedData(sitesQuery.cached,
                                               sitesQuery.fetch.updated_at),
                        !.by = "fetch",
                        !.fetch = NoFetch]

InitSnapshot ==
    sitesQuery = [server |-> 0, cached |-> -1, by |-> "none", fetch |-> NoFetch]

NextSnapshot ==
    \/ ServerChanges
    \/ SitesUpdateApplied
    \/ \E cause \in FetchCauses : FetchStarts(cause)
    \/ ServerAnswers
    \/ FetchResolves

(***************************************************************************)
(* backup_uploads.sh: under set -euo pipefail, one iteration per site      *)
(* directory, then the retention policy, the status and the overall        *)
(* result.                                                                 *)
(***************************************************************************)
MaxSiteDirs == 3        \* site directories under SITES_ROOT

UploadsOnly ==
    UNCHANGED <<clientVars, cacheVars, engineVars, monitorVars, provVars,
                statusVars, backupVars, emitVars, formVars, detectVars,
                restoreVars, messageVars, menuVars, filterVars,
                subscriptionVars, snapshotVars,
                weeklyVars>>

\* What happens to a site directory in a run:
\*   "no_uploads"   none of the candidate paths is a directory
\*   "ok"           restic exits 0 and prints a summary with a snapshot id;
\*                  emit_result.sh exits 0
\*   "restic_fails" restic exits non-zero
\*   "unparsable"   restic exits 0, its last line has no snapshot_short_id
\*   "emit_fails"   as "ok", but the per-site emit_result.sh exits 1
SiteDirKinds == {"no_uploads", "ok", "restic_fails", "unparsable", "emit_fails"}

SiteDirLists == UNION {[1..n -> SiteDirKinds] : n \in 0..MaxSiteDirs}

IdleUploads ==
    [pc |-> "idle", dirs |-> <<>>, next |-> 1, attempted |-> {},
     errors |-> 0, backedUp |-> 0, siteResults |-> {}, overall |-> <<>>,
     exit |-> -1]

\* set -e: a simple command that exits non-zero ends the script.
ErrExit(failed) == failed

\* RESTIC_OUTPUT=$(restic ... backup ... --json 2>&1 | tail -1): under
\* pipefail the status of the assignment is that of restic.
ResticAssignmentFails(kind) == kind = "restic_fails"

\* SNAPSHOT_ID=$(echo "$RESTIC_OUTPUT" | jq -r '...' 2>/dev/null || echo "")
SnapshotIdFound(kind) == kind \in {"ok", "emit_fails"}

\* Determine status
DetermineStatus(errors, backedUp) ==
    IF errors = 0 /\ backedUp > 0 THEN "ok"
    ELSE IF backedUp > 0 THEN "warn"
    ELSE "fail"

\* The script is started on the site directories.
UploadsStart(siteDirs) ==
    /\ uploadsRun.pc = "idle"
    /\ UploadsOnly
    /\ uploadsRun' = [IdleUploads EXCEPT !.pc = "loop", !.dirs = siteDirs]

\* One iteration of the for loop over the site directories.
UploadsSite ==
    /\ uploadsRun.pc = "loop"
    /\ uploadsRun.next <= Len(uploadsRun.dirs)
    /\ UploadsOnly
    /\ LET i == uploadsRun.next
           kind == uploadsRun.dirs[i]
           tried == [uploadsRun EXCEPT !.next = i + 1,
                                       !.attempted = @ \cup {i}]
       IN  uploadsRun' =
             IF kind = "no_uploads"
             THEN [uploadsRun EXCEPT !.next = i + 1]
             ELSE IF ErrExit(ResticAssignmentFails(kind))
             THEN [tried EXCEPT !.pc = "done", !.exit = 1]
             ELSE IF ~SnapshotIdFound(kind)
             THEN [tried EXCEPT !.errors = @ + 1]
             ELSE IF ErrExit(kind = "emit_fails")
             THEN [tried EXCEPT !.backedUp = @ + 1, !.pc = "done", !.exit = 1]
             ELSE [tried EXCEPT !.backedUp = @ + 1,
                                !.siteResults = @ \cup {i}]

\* After the loop: restic forget ... || true, the status, the overall
\* emit_result.sh (exiting with emitExit) and the closing log line.
UploadsFinish(emitExit) ==
    /\ uploadsRun.pc = "loop"
    /\ uploadsRun.next > Len(uploadsRun.dirs)
    /\ UploadsOnly
    /\ uploadsRun' =
         [uploadsRun EXCEPT
            !.overall = Append(@, DetermineStatus(uploadsRun.errors,
                                                  uploadsRun.backedUp)),
            !.pc = "done",
            !.exit = emitExit]

\* The run is over; the next one starts from scratch.
UploadsEnds ==
    /\ uploadsRun.pc = "done"
    /\ UploadsOnly
    /\ uploadsRun' = IdleUploads

InitUploads == uploadsRun = IdleUploads

NextUploads ==
    \/ /\ uploadsRun.pc = "idle"
       /\ \E siteDirs \in SiteDirLists : UploadsStart(siteDirs)
    \/ UploadsSite
    \/ \E emitExit \in {0, 1} : UploadsFinish(emitExit)
    \/ UploadsEnds

(***************************************************************************)
(* snapshot_weekly.sh: the create_image request, the wait loop on the      *)
(* action, the pruning and the result of the run.                          *)
(***************************************************************************)
MAX_WAIT == 1800
SleepSeconds == 30

WeeklyOnly ==
    UNCHANGED <<clientVars, cacheVars, engineVars, monitorVars, provVars,
                statusVars, backupVars, emitVars, formVars, detectVars,
                restoreVars, messageVars, menuVars, filterVars,
                subscriptionVars, snapshotVars, uploadsVars>>

IdleWeekly ==
    [pc |-> "idle", WAITED |-> 0, ACTION_STATUS |-> "", succeeded |-> FALSE,
     emitted |-> <<>>, exit |-> -1]

\* .action.status of GET /actions/{id}; "null" when the response has none
ActionStatuses == {"running", "success", "error", "null"}

\* The answers to POST .../actions/create_image: the action was created,
\* or the response carries .error.message
CreateResponses == {"created", "error"}

\* The script ends with a result emitted and an exit status.
WeeklyExit(status, code) ==
    [weeklyRun EXCEPT !.pc = "done", !.emitted = Append(@, status),
                      !.exit = code]

\* The credentials checks and the create_image request.
WeeklyStart(hasToken, hasServerId, response) ==
    /\ weeklyRun.pc = "idle"
    /\ WeeklyOnly
    /\ weeklyRun' =
         IF ~hasToken THEN WeeklyExit("warn", 0)
         ELSE IF ~hasServerId THEN WeeklyExit("fail", 1)
         ELSE IF response = "error" THEN WeeklyExit("fail", 1)
         ELSE [weeklyRun EXCEPT !.pc = "wait"]


\* One iteration of the wait loop.
WeeklyPoll(status) ==
    /\ weeklyRun.pc = "wait"
    /\ weeklyRun.WAITED < MAX_WAIT
    /\ WeeklyOnly
    /\ weeklyRun' =
         IF status = "success"
         THEN [weeklyRun EXCEPT !.pc = "prune", !.ACTION_STATUS = status,
                                !.succeeded = TRUE]
         ELSE IF status = "error"
         THEN [WeeklyExit("fail", 1) EXCEPT !.ACTION_STATUS = status]
         ELSE [weeklyRun EXCEPT !.ACTION_STATUS = status,
                                !.WAITED = @ + SleepSeconds]

\* The loop condition fails: the warning is logged and the script goes on.
WeeklyTimesOut ==
    /\ weeklyRun.pc = "wait"
    /\ weeklyRun.WAITED >= MAX_WAIT
    /\ WeeklyOnly
    /\ weeklyRun' = [weeklyRun EXCEPT !.pc = "prune"]

\* Old snapshots are pruned and the result of the run is emitted.
WeeklyFinish ==
    /\ weeklyRun.pc = "prune"
    /\ WeeklyOnly
    /\ weeklyRun' = WeeklyExit("ok", 0)

\* The run is over.
WeeklyEnds ==
    /\ weeklyRun.pc = "done"
    /\ WeeklyOnly
    /\ weeklyRun' = IdleWeekly

InitWeekly == weeklyRun = IdleWeekly

NextWeekly ==
    \/ \E hasToken, hasServerId \in BOOLEAN, response \in CreateResponses :
          WeeklyStart(hasToken, hasServerId, response)
    \/ \E status \in ActionStatuses : WeeklyPoll(status)
    \/ WeeklyTimesOut
    \/ WeeklyFinish
    \/ WeeklyEnds
(***************************************************************************)
(* Specifications.                                                         *)
(***************************************************************************)
InitViews == InitStatus /\ InitBackup /\ InitEmit /\ InitForm
             /\ InitDetect /\ InitRestore
    /\ InitMessages
    /\ InitMenu
    /\ InitFilter
    /\ InitSubscribe
    /\ InitSnapshot
    /\ InitUploads
    /\ InitWeekly

Init ==
    /\ InitClient /\ InitCache /\ InitEngine /\ InitMonitor /\ InitProvision
    /\ InitViews

Spec == Init /\ [][NextClient]_vars

SpecCache == Init /\ [][NextCache]_vars

SpecEngine == Init /\ [][NextEngine]_vars

SpecMonitor == Init /\ [][NextMonitor]_vars

SpecProvision == Init /\ [][NextProvision]_vars


SpecStatus == Init /\ [][NextStatus]_vars

SpecBackup == Init /\ [][NextBackup]_vars

SpecEmit == Init /\ [][NextEmit]_vars

SpecForm == Init /\ [][NextForm]_vars

SpecDetect == Init /\ [][NextDetect]_vars

SpecRestore == Init /\ [][NextRestore]_vars

SpecMessages == Init /\ [][NextMessages]_vars

SpecMenu == Init /\ [][NextMenu]_vars

SpecFilter == Init /\ [][NextFilter]_vars

SpecSocket == Init /\ [][NextSocket]_vars

SpecSubscribe == Init /\ [][NextSubscribe]_vars

SpecSnapshot == Init /\ [][NextSnapshot]_vars

SpecUploads == Init /\ [][NextUploads]_vars

SpecWeekly == Init /\ [][NextWeekly]_vars
(***************************************************************************)
(* Claims on the client (checked under Spec).                              *)
(***************************************************************************)

\* C1: every time the connection of the mounted provider goes from not
\* connected to connected, both queries are invalidated.  Stated in its
\* weakest form: the invalidation that an open calls for has happened by the
\* time that connection is lost again, so no connection comes and goes
\* without its refetch.
C1_EveryConnectRefetches == syncPending => IsConnected

\* C9: the n-th consecutive reconnect attempt is scheduled with a delay of
\* 1000 * 2^(n-1) ms, at most 10 attempts are scheduled without a successful
\* open, the client gives up only after the 10th, and an open resets the
\* attempt counter (the schedule history is emptied by the open).
C9_Backoff ==
    /\ Len(schedHist) <= 10
    /\ \A n \in 1..Len(schedHist) : schedHist[n] = 1000 * Pow2(n - 1)
    /\ gaveUp => Len(schedHist) = 10
    /\ reconnectAttempts = Len(schedHist)

\* C9 witness: ten attempts were scheduled, the tenth 512 s after its close,
\* and the close that followed scheduled nothing.
C9_Witness ==
    /\ gaveUp
    /\ Len(schedHist) = 10
    /\ schedHist[10] = 512000
    /\ timers = <<>>

\* C10: while the WebSocket of the mounted dashboard is not connected, no
\* 60 s go by without a refetch of the sites.
C10_PollsWhileDisconnected == (mounted = "yes" /\ ~IsConnected) => quiet = 0
(***************************************************************************)
(* Claims on the state cache (checked under SpecCache).                    *)
(***************************************************************************)

\* C3: single-flight.  At most one discovery invocation is in flight, every
\* waiting caller waits for that one, and all the callers answered by the
\* same refresh got the same snapshot (or the same error).
C3_SingleFlight ==
    /\ Cardinality(running) <= 1
    /\ \A c \in Callers :
          callers[c].pc = "waiting" => \E r \in running : r.id = callers[c].gen
    /\ \A c1, c2 \in Callers :
          (/\ callers[c1].pc = "done" /\ callers[c2].pc = "done"
           /\ callers[c1].gen # 0 /\ callers[c1].gen = callers[c2].gen)
          => callers[c1].res = callers[c2].res

\* C3 witness: three forced calls were made while one refresh was in
\* progress, one discovery ran in all, and the three hold its snapshot.
C3_Witness ==
    /\ discoveries = 1
    /\ \A c \in Callers :
          /\ callers[c].pc = "done" /\ callers[c].force
          /\ callers[c].gen = 1 /\ callers[c].res >= 0
    /\ Cardinality({c \in Callers : callers[c].joined}) = Cardinality(Callers) - 1

\* C4: a read of the site list issued after a state-changing action has
\* returned never gets a snapshot older than that action: the snapshot shows
\* at least the world as it was when the read was issued.
C4_ReadSeesPostAction ==
    \A c \in Callers :
        (callers[c].pc = "done" /\ callers[c].res >= 0)
        => callers[c].res >= callers[c].minVer

(***************************************************************************)
(* Claims on the action engine (checked under SpecEngine).                 *)
(***************************************************************************)
Terminal == {"success", "failure"}

\* C2: actions on the same site run in submission order and one at a time:
\* of two actions of a site, the later submitted starts only after the
\* earlier has ended, and the [started, ended] intervals of their audit
\* entries do not overlap.
C2_SerializedPerSite ==
    \A a, b \in ActionIds :
        (a < b /\ exec[a].site # "" /\ exec[a].site = exec[b].site)
        => /\ exec[b].started # -1
                => (exec[a].ended # -1 /\ exec[a].ended <= exec[b].started)
           /\ (audit[a].status \in Terminal /\ audit[b].status # "none")
                => audit[a].ended <= audit[b].started
           /\ (audit[a].status = "pending" /\ audit[b].status # "none")
                => exec[a].returned

\* C2 witness: a start and a stop of one site, submitted around an action of
\* another site, have both run and both have their terminal audit entry.
C2_Witness ==
    \E a, b \in ActionIds :
        /\ a < b /\ exec[a].site # "" /\ exec[a].site = exec[b].site
        /\ exec[a].kind = "start" /\ exec[b].kind = "stop"
        /\ audit[a].status \in Terminal /\ audit[b].status \in Terminal
        /\ \E x \in ActionIds : a < x /\ x < b /\ exec[x].site \notin {"", exec[a].site}

\* C7: no audit entry of an action that has returned is still pending, and
\* every action that has returned has its terminal entry.
C7_TerminalAuditEntry ==
    \A a \in ActionIds : exec[a].returned => audit[a].status \in Terminal

(***************************************************************************)
(* Claims on the monitor loop and the hub (checked under SpecMonitor).     *)
(***************************************************************************)

\* C5: a monitor cycle publishes sites.update if and only if the canonical
\* fingerprint of the site list differs from the one of the prior cycle
\* that computed one (the first such cycle has no prior and publishes); a
\* cycle that fails with a transport error publishes nothing.
C5_PublishIffChanged ==
    lastCycle.ran =>
        ((\E i \in 1..Len(lastCycle.sent) : lastCycle.sent[i] = "sites.update")
         <=> (lastCycle.ok /\ lastCycle.fp # lastCycle.prior))

\* C5 witness: after both kinds of cycle were seen the last one found the
\* fingerprint of the prior cycle again and published only graph.update.
C5_Witness ==
    /\ lastCycle.ran /\ lastCycle.ok
    /\ lastCycle.prior # -1
    /\ lastCycle.fp = lastCycle.prior
    /\ lastCycle.sent = <<"graph.update">>
    /\ cycles >= 3

\* C6: slow-consumer policy.  No open connection holds more than Q
\* envelopes; a full queue never keeps the monitor from running its cycle;
\* and in every cycle a subscriber whose queue cannot take the envelopes the
\* cycle publishes is closed in that cycle, while every other subscriber
\* stays open with the envelopes appended to its queue in order.
C6_SlowConsumerDropped ==
    /\ [](\A c \in ConnIds : conns[c].alive => Len(conns[c].queue) <= QueueCap)
    /\ [](cycles < MaxCycles => ENABLED MonitorCycle(FALSE))
    /\ [][cycles' # cycles =>
            \A c \in ConnIds :
                (conns[c].alive /\ conns[c].subscribed) =>
                    IF Len(conns[c].queue) + Len(lastCycle'.sent) <= QueueCap
                    THEN /\ conns'[c].alive /\ conns'[c].subscribed
                         /\ conns'[c].queue = conns[c].queue \o lastCycle'.sent
                    ELSE ~conns'[c].alive]_vars

\* C6 witness: of two subscribers one has drained and holds the two
\* envelopes of the last cycle, the other did not drain and is closed.
C6_Witness ==
    /\ lastCycle.sent = <<"sites.update", "graph.update">>
    /\ cycles >= 2
    /\ conns["c1"].alive /\ conns["c1"].queue = lastCycle.sent
    /\ conns["c2"].closed = "slow-consumer"

(***************************************************************************)
(* Claims on the provisioner (checked under SpecProvision).                *)
(***************************************************************************)
\* C8: when the create flow has failed at a step k in 1..7 and rolled back,
\* the compensations recorded up to the failure have run, each once, last
\* recorded first, and everything the flow can touch (site files, proxy
\* routes, DNS records, tunnel hostnames, monitors, running services) is as
\* it was before the call.
C8_RollbackRestores ==
    txn.pc = "failed" =>
        /\ txn.failedAt \in 1..7
        /\ World = txn.pre
        /\ txn.log = txn.recorded
        /\ \A i, j \in 1..Len(txn.log) :
              i < j => \E a, b \in 1..Len(StepOrder) :
                          /\ StepOrder[a] = txn.log[i] /\ StepOrder[b] = txn.log[j]
                          /\ a > b

\* C8 witness: the flow failed at step 7 (the reload) after creating the
\* files, the route, the DNS record, the tunnel hostname, the monitor and
\* the services, and the six compensations have run.
C8_Witness ==
    /\ txn.pc = "failed"
    /\ txn.failedAt = 7
    /\ txn.log = <<"up", "monitor", "tunnel", "dns", "route", "files">>
    /\ txn.name \notin dirs


(***************************************************************************)
(* Claims on the site status (checked under SpecStatus).                   *)
(***************************************************************************)

\* C11: a site's status is determined by its containers alone and is
\* exactly one of four: unknown for an empty container list, running when
\* every container is 'Up', stopped when none is, degraded for a mix; the
\* checklist item computed from the same containers agrees with it.
C11_StatusOfContainers ==
    LET total == Len(shownSite.containers)
        upN == RunningCount(shownSite.containers)
    IN  /\ shownSite.status \in SiteStatuses
        /\ shownSite.status = "unknown" <=> total = 0
        /\ shownSite.status = "running" <=> (total > 0 /\ upN = total)
        /\ shownSite.status = "stopped" <=> (total > 0 /\ upN = 0)
        /\ shownSite.status = "degraded" <=> (0 < upN /\ upN < total)
        /\ containerCheck.status = "ok" <=> shownSite.status = "running"
        /\ containerCheck.status = "warning" <=> shownSite.status = "degraded"
        /\ containerCheck.status = "error" <=> shownSite.status \in {"stopped", "unknown"}

\* C11 witness: a site with an 'Up', an unhealthy 'Up' and an exited
\* container is degraded.
C11_Witness ==
    /\ Len(shownSite.containers) = 3
    /\ shownSite.containers[1].text = UpText
    /\ shownSite.containers[2].text = UnhealthyText
    /\ shownSite.containers[3].text = ExitedText
    /\ shownSite.status = "degraded"

(***************************************************************************)
(* Claims on the backup ingest (checked under SpecBackup).                 *)
(***************************************************************************)

\* C12 (the rule alone): the overall status is ok when every job has an ok
\* run within its threshold, fail when some job's last run failed or is
\* missing, and warn when no job fails and some job's ok run is stale.
C12_StatusRule ==
    /\ overall = "ok" <=>
          \A j \in JobTypes : lastRun[j].status = "ok" /\ Fresh(j, lastRun[j])
    /\ overall = "fail" <=>
          \E j \in JobTypes : lastRun[j].status \in {"none", "fail"}
    /\ overall = "warn" <=>
          /\ \A j \in JobTypes : lastRun[j].status = "ok"
          /\ \E j \in JobTypes : ~Fresh(j, lastRun[j])

\* The scenario of C12: the site's only run is a db/ok run that ended 30 h
\* ago.
SingleStaleDbRun ==
    lastRun = [j \in JobTypes |->
                  IF j = "db" THEN [status |-> "ok", age |-> 30] ELSE NoRun]

C13_IngestIdempotent ==
    /\ \A a, b \in 1..Len(runRows) :
          (a # b) => ~SameRun(runRows[a], runRows[b])
    /\ \A r \in 1..MaxRuns :
          Cardinality({k \in 1..Len(runRows) : runRows[k].run = r}) <= 1

\* C13 witness: the ingester received all three POSTs of one invocation
\* (the responses were lost, the script exited 1) and holds one row of it.
C13_Witness ==
    /\ emit.pc = "idle" /\ emit.exit = 1 /\ emit.received = 3
    /\ Cardinality({k \in 1..Len(runRows) : runRows[k].run = runCount}) = 1

(***************************************************************************)
(* Claims on the provision forms (checked under SpecForm).                 *)
(***************************************************************************)

\* C14: every provision request carries a name of at least 2 characters,
\* all of them lowercase letters, digits or hyphens, the first and the last
\* alphanumeric.
C14_OnlyValidNamesSent ==
    provisionRequest.sent =>
        LET n == provisionRequest.name
        IN  /\ Len(n) >= 2
            /\ \A i \in 1..Len(n) : n[i] \in {"a", "9", "-"}
            /\ n[1] \in {"a", "9"}
            /\ n[Len(n)] \in {"a", "9"}

(***************************************************************************)
(* Claims on the project-type detection (checked under SpecDetect).        *)
(***************************************************************************)

\* The file set holds a file named m (in any folder).
HasFileNamed(files, m) ==
    \E f \in files : LET parts == SplitPath(f, <<>>) IN parts[Len(parts)] = m

\* The file set holds a file under a folder named d.
HasFolderNamed(files, d) ==
    \E f \in files :
        LET parts == SplitPath(f, <<>>)
        IN  \E i \in 1..(Len(parts) - 1) : parts[i] = d

\* The type the fixed order node, python, wordpress, static gives a file set.
TypeByMarkerFiles(files) ==
    CASE HasFileNamed(files, PackageJson) -> "node"
      [] OTHER ->
         IF (HasFileNamed(files, RequirementsTxt)
                \/ HasFileNamed(files, PyprojectToml)
                \/ HasFileNamed(files, ManagePy))
         THEN "python"
         ELSE IF (HasFileNamed(files, WpConfigPhp)
                     \/ HasFolderNamed(files, WpContent))
         THEN "wordpress"
         ELSE "static"

\* C15: detection returns the earliest type, in the order node, python,
\* wordpress, static, of which the file set holds a marker file, and static
\* when it holds no marker file.
C15_DetectionOrder ==
    /\ detectedType.form = TypeByMarkerFiles(selectedFiles)
    /\ detectedType.bar = TypeByMarkerFiles(selectedFiles)

\* The order alone, over the paths that contain a marker: a node marker
\* wins over all, a python marker over wordpress.
DetectionOrderOnPaths ==
    /\ detectedType.form = detectedType.bar
    /\ HasMarkerBar(selectedFiles, PackageJson) => detectedType.bar = "node"
    /\ (HasFileNamed(selectedFiles, ManagePy) /\ detectedType.bar # "node")
          => detectedType.bar = "python"

(***************************************************************************)
(* Claims on restore.sh (checked under SpecRestore).                       *)
(***************************************************************************)

\* C16: an invocation imports SQL, moves or overwrites the uploads
\* directory only when its command line holds --i-understand-risk and no
\* --dry-run; with --dry-run it does nothing but list snapshot contents.
C16_NoRestoreWithoutConsent ==
    /\ (restoreDone.imported \/ restoreDone.moved \/ restoreDone.restored)
          => (restoreArgv.confirmed /\ ~HasDryRun(restoreArgv))
    /\ HasDryRun(restoreArgv)
          => (~restoreDone.extracted /\ ~restoreDone.imported
              /\ ~restoreDone.moved /\ ~restoreDone.restored)
    /\ restoreDone.listed # {} => restoreArgv.dryRun

\* C16 witness: a confirmed restore of both the database and the uploads
\* has run to its end.
C16_Witness ==
    /\ restore.pc = "exited" /\ restore.exit = 0
    /\ restoreArgv.confirmed /\ ~restoreArgv.dryRun
    /\ restoreDone.imported /\ restoreDone.moved /\ restoreDone.restored

\* C16 witness of the dry run: both snapshots were listed and nothing else
\* was done, although --i-understand-risk was given too.
C16_DryRunWitness ==
    /\ restore.pc = "exited" /\ restore.exit = 0
    /\ restoreArgv.confirmed /\ restoreArgv.dryRun
    /\ restoreDone.listed = {"db", "uploads"}

FailedRestoreExits ==
    restoreDone.resticFailed =>
        /\ restore.pc = "exited" /\ restore.exit # 0
        /\ restoreArgv.confirmed /\ ~HasDryRun(restoreArgv)

(***************************************************************************)
(* Claims on the message path (checked under SpecMessages).                *)
(***************************************************************************)

\* What the protocol says a frame carries: the key it updates and the data.
SitesUpdates ==
    [s \in {"s1", "s2"} |-> "{\"type\":\"sites.update\",\"data\":\"" \o s \o "\"}"]

GraphUpdates ==
    [g \in {"g1", "g2"} |-> "{\"type\":\"graph.update\",\"data\":\"" \o g \o "\"}"]

\* C17: at each message event, a sites.update frame replaces the cached
\* ['sites'] data with its data and leaves ['graph'] alone, a graph.update
\* does the same for ['graph'], and any other frame (other type, or not
\* valid JSON) changes neither; in every case the socket stays open.
C17_MessageEffect ==
    [][frameTick' # frameTick =>
          /\ readyState = "OPEN" /\ readyState' = "OPEN"
          /\ \A s \in DOMAIN SitesUpdates :
                lastFrame' = SitesUpdates[s] =>
                    queryData' = [queryData EXCEPT !.sites = s]
          /\ \A g \in DOMAIN GraphUpdates :
                lastFrame' = GraphUpdates[g] =>
                    queryData' = [queryData EXCEPT !.graph = g]
          /\ (/\ \A s \in DOMAIN SitesUpdates : lastFrame' # SitesUpdates[s]
              /\ \A g \in DOMAIN GraphUpdates : lastFrame' # GraphUpdates[g])
                => queryData' = queryData]_vars

\* C17 witness: after a fetch filled both caches, a sites.update has
\* replaced the sites and then a frame that is not JSON arrived.
C17_Witness ==
    /\ lastFrame = "not json"
    /\ queryData = [sites |-> "s2", graph |-> "g0"]
    /\ lastMessage.type = "sites.update"
    /\ readyState = "OPEN"

(***************************************************************************)
(* Claims on ContextMenu (checked under SpecMenu).                         *)
(***************************************************************************)

\* C18: the menu never goes from closed to open while the disabled prop
\* is true, be it by a right-click or by a long press.
C18_NoOpenWhenDisabled ==
    [][~(~isOpen /\ isOpen' /\ disabled')]_vars

\* C18 for the right-click alone: it never opens a disabled menu.
RightClickNeverOpensDisabled ==
    [][~(~isOpen /\ isOpen' /\ disabled' /\ openedBy' = "contextmenu")]_vars

\* C19: whenever a touch opens the menu, the touch on the container has
\* been held for 500 ms and has never been more than 10 px away from its
\* start point on either axis.
C19_LongPressOnly ==
    [][(~isOpen /\ isOpen' /\ openedBy' = "longpress") =>
          /\ touches # <<>>
          /\ menuClock - touches[1].since >= LongPressMs
          /\ ~touches[1].strayed]_vars

(***************************************************************************)
(* Claims on filterSites (checked under SpecFilter).                       *)
(***************************************************************************)

\* The monitor and the backup summary of a site: those under its name, or
\* else under its name in lower case.
MonitorsOfSite(site, healthData) ==
    IF ~healthData.defined THEN {}
    ELSE LET exact == {healthData.monitors[k] :
                          k \in {k \in DOMAIN healthData.monitors :
                                    k = site.name /\ healthData.monitors[k].present}}
             lower == {healthData.monitors[k] :
                          k \in {k \in DOMAIN healthData.monitors :
                                    k = LowerCased(site.name)
                                    /\ healthData.monitors[k].present}}
         IN  IF exact # {} THEN exact ELSE lower

BackupsOfSite(site, backupData) ==
    IF ~backupData.defined THEN {}
    ELSE {backupData.list[i].overall_status :
             i \in {i \in 1..Len(backupData.list) :
                       backupData.list[i].site \in {site.name, LowerCased(site.name)}}}

MatchesFilter(site, a) ==
    CASE a.filter = "all" -> TRUE
      [] a.filter = "stopped" -> site.status \in {"stopped", "degraded"}
      [] a.filter = "issues" ->
            \E m \in MonitorsOfSite(site, a.healthData) :
                \/ m.hasHeartbeats /\ 0 \in {m.heartbeats[i] : i \in 1..Len(m.heartbeats)}
                \/ m.hasUptime /\ m.uptime < 99
      [] a.filter = "backup_warnings" ->
            BackupsOfSite(site, a.backupData) \cap {"warn", "fail"} # {}

\* C20: filterSites returns undefined for an undefined list, the list
\* itself for 'all', and otherwise the sites that match the filter, each
\* once and in the order of the list.
C20_FilterSitesExact ==
    LET a == filterArgs
        MatchesArgs(site) == MatchesFilter(site, a)
    IN  /\ ~a.sites.defined => filterResult = Undefined
        /\ a.filter = "all" => filterResult = a.sites
        /\ a.sites.defined =>
              filterResult = Defined(SelectSeq(a.sites.list, MatchesArgs))

\* C20 witness: of two sites the 'issues' filter kept the second only; the
\* first has a monitor with an uptime of exactly 99, the second a monitor
\* with a heartbeat of status 0.
C20_Witness ==
    /\ filterArgs.filter = "issues"
    /\ filterArgs.sites.defined /\ Len(filterArgs.sites.list) = 2
    /\ filterArgs.healthData.defined
    /\ filterArgs.healthData.monitors[<<"A">>] = Monitor(TRUE, <<>>, TRUE, 99)
    /\ filterArgs.healthData.monitors[<<"a">>] = Monitor(TRUE, <<1, 0>>, TRUE, 100)
    /\ filterArgs.sites.list[1].name = <<"A">>
    /\ filterArgs.sites.list[2].name = <<"a">>
    /\ filterResult = Defined(<<filterArgs.sites.list[2]>>)

\* C20 witness for the backups: a site found under its lower-case name
\* with status warn was kept, one with status ok was not.
C20_BackupWitness ==
    /\ filterArgs.filter = "backup_warnings"
    /\ filterArgs.backupData =
          Defined(<<[site |-> <<"9">>, overall_status |-> "ok"],
                    [site |-> <<"a">>, overall_status |-> "warn"]>>)
    /\ filterArgs.sites.defined /\ Len(filterArgs.sites.list) = 2
    /\ filterArgs.sites.list[1].name = <<"9">>
    /\ filterArgs.sites.list[2].name = <<"A">>
    /\ filterResult = Defined(<<filterArgs.sites.list[2]>>)

\* The number of sites a filterSites result holds (none when undefined).
NumberReturned(result) == IF result.defined THEN Len(result.list) ELSE 0

\* C21: for the same sites, health data and backup data, each of the four
\* counts of computeFilterCounts is the number of sites filterSites
\* returns for that filter.
C21_CountsMatchFilter ==
    filterCounts # NoCounts =>
        /\ filterCounts[filterArgs.filter] = NumberReturned(filterResult)
        /\ \A f \in SiteFilters :
              filterCounts[f] =
                  NumberReturned(filterSites(filterArgs.sites, f,
                                             filterArgs.healthData,
                                             filterArgs.backupData))

\* C21 witness: the bar was rendered for two sites of which the filter in
\* use kept one, and the other counts are not all the same.
C21_Witness ==
    /\ filterCounts # NoCounts
    /\ filterArgs.filter = "issues"
    /\ filterCounts.all = 2 /\ filterCounts.issues = 1 /\ filterCounts.stopped = 2
    /\ NumberReturned(filterResult) = 1

\* The monitors whose name is the site's name up to letter case.
SameNameMonitors(site, healthData) ==
    IF ~healthData.defined THEN {}
    ELSE {healthData.monitors[k] :
             k \in {k \in DOMAIN healthData.monitors :
                       /\ LowerCased(k) = LowerCased(site.name)
                       /\ healthData.monitors[k].present}}

\* C22: a site that has exactly one monitor of its name up to letter case
\* is kept by the 'issues' filter when that monitor has a heartbeat of
\* status 0 or an uptime below 99.
C22_CaseInsensitiveMonitor ==
    (filterArgs.filter = "issues" /\ filterArgs.sites.defined) =>
        \A i \in 1..Len(filterArgs.sites.list) :
            LET site == filterArgs.sites.list[i]
                ms == SameNameMonitors(site, filterArgs.healthData)
            IN  (/\ Cardinality(ms) = 1
                 /\ \E m \in ms : IsDown(m) \/ LowUptime(m))
                    => \E j \in 1..Len(filterResult.list) :
                          filterResult.list[j] = site

\* C22 as the code has it: the monitor is found when its name is the
\* site's name or the site's name in lower case.
LowerCaseMonitorFound ==
    (filterArgs.filter = "issues" /\ filterArgs.sites.defined) =>
        \A i \in 1..Len(filterArgs.sites.list) :
            LET site == filterArgs.sites.list[i]
                h == filterArgs.healthData
            IN  (/\ h.defined
                 /\ LowerCased(site.name) \in DOMAIN h.monitors
                 /\ site.name # LowerCased(site.name)
                 /\ ~h.monitors[site.name].present
                 /\ LET m == h.monitors[LowerCased(site.name)]
                    IN  m.present /\ (IsDown(m) \/ LowUptime(m)))
                    => \E j \in 1..Len(filterResult.list) :
                          filterResult.list[j] = site

(***************************************************************************)
(* Claims on the WebSocketClient under any caller (SpecSocket).            *)
(***************************************************************************)

\* C23: once the provider has called disconnect() (and connect() is not
\* called again), no WebSocket is created and no ping timer is started.
C23_QuietAfterDisconnect ==
    [][mounted = "gone" =>
          /\ \A s \in Sockets : sock'[s] = "connecting" => sock[s] = "connecting"
          /\ activePings' <= activePings]_vars

\* C25: at most one WebSocket of the client is connecting or open, at most
\* one ping timer is active, and one is active only while the client's
\* socket is open.
C25_OneSocketOnePing ==
    /\ Cardinality({s \in Sockets : sock[s] \in {"connecting", "open"}}) <= 1
    /\ activePings <= 1
    /\ activePings > 0 => IsConnected

(***************************************************************************)
(* Claims on the subscriptions (SpecSubscribe).                            *)
(***************************************************************************)

\* C26: while the socket is open, every topic the client subscribed to and
\* has not unsubscribed from is held by the server for this connection:
\* requests made before the open were sent at the open, and so were the
\* ones of earlier connections.
C26_SubscriptionsStay == link.readyState = "open" => link.wanted \subseteq link.held

\* A subscribe made while the socket is open takes effect at once.
SubscribeWhileOpenHeld ==
    [][\A topic \in Topics :
          (link.readyState = "open" /\ link'.readyState = "open"
           /\ topic \notin link.wanted /\ topic \in link'.wanted)
          => topic \in link'.held]_vars

(***************************************************************************)
(* Claims on the ['sites'] query (SpecSnapshot).                           *)
(***************************************************************************)

\* C24: when the answer of a fetch replaces data that a sites.update put in
\* the cache, the snapshot it brings is not older than the one replaced.
C24_NeverOlderSnapshot ==
    [][(sitesQuery.by = "push" /\ sitesQuery'.by = "fetch")
          => sitesQuery'.cached >= sitesQuery.cached]_vars

(***************************************************************************)
(* Claims on backup_uploads.sh (SpecUploads).                              *)
(***************************************************************************)

\* The site directories of the run that have an uploads directory.
WithUploads ==
    {i \in 1..Len(uploadsRun.dirs) : uploadsRun.dirs[i] # "no_uploads"}

\* C27: a run that has ended has attempted the backup of every site
\* directory with an uploads directory and has emitted exactly one overall
\* system/uploads result, which is ok, warn or fail.
C27_EveryRunReports ==
    uploadsRun.pc = "done" =>
        /\ uploadsRun.attempted = WithUploads
        /\ Len(uploadsRun.overall) = 1
        /\ uploadsRun.overall[1] \in {"ok", "warn", "fail"}

\* A run in which restic exits 0 for every site and every per-site
\* emit_result.sh exits 0 does report, also when a snapshot id cannot be
\* parsed.
QuietRunReports ==
    (/\ uploadsRun.pc = "done"
     /\ \A i \in 1..Len(uploadsRun.dirs) :
           uploadsRun.dirs[i] \notin {"restic_fails", "emit_fails"})
    => /\ uploadsRun.attempted = WithUploads
       /\ uploadsRun.overall =
             <<DetermineStatus(uploadsRun.errors, uploadsRun.backedUp)>>
       /\ uploadsRun.errors =
             Cardinality({i \in WithUploads : uploadsRun.dirs[i] = "unparsable"})

(***************************************************************************)
(* Claims on snapshot_weekly.sh (SpecWeekly).                              *)
(***************************************************************************)

\* C29: a run has emitted the result ok only if a poll of its wait loop saw
\* the action with status success.
C29_OkOnlySuccess ==
    (\E n \in 1..Len(weeklyRun.emitted) : weeklyRun.emitted[n] = "ok")
        => weeklyRun.succeeded

\* A run whose action is seen with status error reports fail and exits 1,
\* and every run emits one result.
ErrorReportsFail ==
    weeklyRun.pc = "done" =>
        /\ Len(weeklyRun.emitted) = 1
        /\ weeklyRun.ACTION_STATUS = "error" =>
              (weeklyRun.emitted = <<"fail">> /\ weeklyRun.exit = 1)
====
